---- MODULE Spec2Model ----
(***************************************************************************)
(* DevDash: the touch gesture classifier (devdash/ui/touch.py) and the     *)
(* screen manager's navigation and main loop (devdash/ui/screen_manager.py)*)
(* with the screens' gesture hooks (devdash/screens/*.py).                 *)
(*                                                                         *)
(* Time is in milliseconds (time.monotonic() * 1000).  One call of         *)
(* process_events reads the clock as one value: the call never suspends.   *)
(***************************************************************************)
EXTENDS Integers, Sequences, FiniteSets, TLC

\* ------------------------------------------------------------------ bounds
\* The clock advances in steps of TickMs, at most MaxTicks times.
TickMs == 300
MaxTicks == 3
\* The most raw events one pygame.event.get() returns.
MaxEvents == 2
\* config.github.poll_interval, in ms (a value the configuration file sets).
PollIntervalMs == 300
\* The most _poll_data tasks in flight, and the most PRs the cache returns.
MaxPolls == 1
MaxPrs == 1
\* The cache holds at most MaxRuns failed CI runs.
MaxRuns == 2
\* The refresh model: the clock stops after MaxPollTicks ticks, and at most
\* MaxTasks _poll_data tasks are in flight.
MaxPollTicks == 4
MaxTasks == 2
\* A screen has at most MaxScreenTasks coroutines of its own in flight.
MaxScreenTasks == 2
\* The PR screen's model: the cache lists at most MaxListed pending PRs.
MaxListed == 2
\* The status bar's model: the cache holds at most MaxCount pending PRs.
MaxCount == 6
\* The standup screen's model: a standup has at most MaxLines lines.
MaxLines == 12
\* The conversation's model: at most MaxMessages messages are appended.
MaxMessages == 4

\* ------------------------------------------------------- program constants
SWIPE_THRESHOLD == 50
LONG_PRESS_MS == 600
DisplayWidth == 480
DisplayHeight == 320
\* ui/theme.py, and config.deploy.min_confidence.
STATUS_BAR_HEIGHT == 32
NAV_BAR_HEIGHT == 40
CONTENT_Y == STATUS_BAR_HEIGHT
BUTTON_HEIGHT == 48
MinConfidence == 70
BOTTOM_H == 60

\* ------------------------------------------------------------- touch model
NoTouch == <<>>

Abs(n) == IF n < 0 THEN -n ELSE n

Gesture(type, x, y, start_x, start_y) ==
    [type |-> type, x |-> x, y |-> y, start_x |-> start_x, start_y |-> start_y]

\* A raw pygame event.  pos is event.pos for mouse events and the normalised
\* (event.x, event.y), in thousandths, for finger events.
Event(type, pos, key) == [type |-> type, pos |-> pos, key |-> key]

\* int(event.x * width), int(event.y * height) for finger events; event.pos
\* for mouse events.
EventPos(e) ==
    IF e.type \in {"FINGERDOWN", "FINGERUP"}
    THEN << (e.pos[1] * DisplayWidth) \div 1000, (e.pos[2] * DisplayHeight) \div 1000 >>
    ELSE e.pos

\* _classify with a tie |dx| = |dy| going to the horizontal axis.
ClassifyNoTie(sx, sy, x, y, dx, dy, duration) ==
    LET abs_dx == Abs(dx)
        abs_dy == Abs(dy)
    IN  IF abs_dx > SWIPE_THRESHOLD \/ abs_dy > SWIPE_THRESHOLD
        THEN IF abs_dx >= abs_dy
             THEN Gesture(IF dx > 0 THEN "SWIPE_RIGHT" ELSE "SWIPE_LEFT", x, y, sx, sy)
             ELSE Gesture(IF dy > 0 THEN "SWIPE_DOWN" ELSE "SWIPE_UP", x, y, sx, sy)
        ELSE IF duration > LONG_PRESS_MS
             THEN Gesture("LONG_PRESS", x, y, sx, sy)
             ELSE Gesture("TAP", x, y, sx, sy)

\* TouchHandler._classify
Classify(sx, sy, x, y, dx, dy, duration) ==
    LET abs_dx == Abs(dx)
        abs_dy == Abs(dy)
    IN  IF abs_dx > SWIPE_THRESHOLD \/ abs_dy > SWIPE_THRESHOLD
        THEN IF abs_dx > abs_dy
             THEN Gesture(IF dx > 0 THEN "SWIPE_RIGHT" ELSE "SWIPE_LEFT", x, y, sx, sy)
             ELSE Gesture(IF dy > 0 THEN "SWIPE_DOWN" ELSE "SWIPE_UP", x, y, sx, sy)
        ELSE IF duration > LONG_PRESS_MS
             THEN Gesture("LONG_PRESS", x, y, sx, sy)
             ELSE Gesture("TAP", x, y, sx, sy)

\* The keyboard fallback: the gesture of a key, <<>> for a key without one.
KeyGesture(key) ==
    CASE key = "K_LEFT"   -> << Gesture("SWIPE_LEFT", 240, 160, 340, 160) >>
      [] key = "K_RIGHT"  -> << Gesture("SWIPE_RIGHT", 240, 160, 140, 160) >>
      [] key = "K_UP"     -> << Gesture("SWIPE_UP", 240, 160, 240, 260) >>
      [] key = "K_DOWN"   -> << Gesture("SWIPE_DOWN", 240, 160, 240, 60) >>
      [] key = "K_RETURN" -> << Gesture("TAP", 240, 160, 240, 160) >>
      [] OTHER            -> << >>

\* What a gesture came from, kept beside the gesture for the properties:
\* src is "up" (a pointer-up), "key" or "hold" (the held long press), dur the
\* duration the code computed, pos the position of the pointer-up and origin
\* the session's start.
Meta(src, dur, pos, origin) == [src |-> src, dur |-> dur, pos |-> pos, origin |-> origin]

\* The state of one process_events call: self._touch_start (start),
\* self._touch_start_time (time), the local list gestures, and whether
\* SystemExit was raised.  The rest is history: meta (one entry per gesture),
\* emitted (what the gestures the latest pointer-down has led to came from),
\* start0 (the session when the call began), and the numbers of events (n),
\* pointer-downs (downs), pointer-ups with a session active (ups) and
\* pointer-ups with none (idle_ups) the call has processed, the position
\* of the latest pointer-down among them (last_down), the start of the session
\* whose held long press was emitted and whose pointer-up has not come yet
\* (held), and that start with the position of that pointer-up once it came
\* in this call (late_up).
CallState(start, time, k, c) ==
    [start |-> start, time |-> time, emitted |-> k, gestures |-> c.gestures,
     raised |-> c.raised, meta |-> c.meta, start0 |-> c.start0, n |-> c.n,
     downs |-> c.downs, ups |-> c.ups, idle_ups |-> c.idle_ups, last_down |-> c.last_down,
     held |-> c.held, late_up |-> c.late_up]

\* The event loop without "self._touch_start = None" after a pointer-up.
HandleEventKeepSession(s, e, now) ==
    IF e.type = "QUIT" THEN [s EXCEPT !.raised = TRUE]
    ELSE IF e.type \in {"MOUSEBUTTONDOWN", "FINGERDOWN"}
    THEN [s EXCEPT !.start = EventPos(e), !.time = now, !.downs = @ + 1, !.emitted = << >>,
                   !.last_down = EventPos(e), !.held = NoTouch]
    ELSE IF e.type \in {"MOUSEBUTTONUP", "FINGERUP"}
    THEN IF s.start = NoTouch
         THEN [s EXCEPT !.idle_ups = @ + 1, !.held = NoTouch,
                        !.late_up = IF s.held # NoTouch THEN << s.held, EventPos(e) >> ELSE @]
         ELSE LET x  == EventPos(e)[1]
                  y  == EventPos(e)[2]
                  sx == s.start[1]
                  sy == s.start[2]
                  duration == now - s.time
              IN  [s EXCEPT !.gestures = Append(@, Classify(sx, sy, x, y, x - sx, y - sy, duration)),
                            !.meta = Append(@, Meta("up", duration, EventPos(e), s.start)),
                            !.emitted = Append(@, "up"),
                            !.ups = @ + 1]
    ELSE IF e.type = "KEYDOWN"
    THEN IF e.key = "K_q" THEN [s EXCEPT !.raised = TRUE]
         ELSE [s EXCEPT !.gestures = @ \o KeyGesture(e.key),
                        !.meta = @ \o [i \in 1..Len(KeyGesture(e.key)) |-> Meta("key", 0, << >>, << >>)]]
    ELSE s

\* The event loop with a pointer-down ignored while a session is active.
HandleEventFirstDownWins(s, e, now) ==
    IF e.type = "QUIT" THEN [s EXCEPT !.raised = TRUE]
    ELSE IF e.type \in {"MOUSEBUTTONDOWN", "FINGERDOWN"}
    THEN IF s.start # NoTouch
         THEN [s EXCEPT !.downs = @ + 1, !.last_down = EventPos(e)]
         ELSE [s EXCEPT !.start = EventPos(e), !.time = now, !.downs = @ + 1,
                        !.emitted = << >>, !.last_down = EventPos(e), !.held = NoTouch]
    ELSE IF e.type \in {"MOUSEBUTTONUP", "FINGERUP"}
    THEN IF s.start = NoTouch
         THEN [s EXCEPT !.idle_ups = @ + 1, !.held = NoTouch,
                        !.late_up = IF s.held # NoTouch THEN << s.held, EventPos(e) >> ELSE @]
         ELSE LET x  == EventPos(e)[1]
                  y  == EventPos(e)[2]
                  sx == s.start[1]
                  sy == s.start[2]
                  duration == now - s.time
              IN  [s EXCEPT !.gestures = Append(@, Classify(sx, sy, x, y, x - sx, y - sy, duration)),
                            !.meta = Append(@, Meta("up", duration, EventPos(e), s.start)),
                            !.emitted = Append(@, "up"),
                            !.ups = @ + 1,
                            !.start = NoTouch]
    ELSE IF e.type = "KEYDOWN"
    THEN IF e.key = "K_q" THEN [s EXCEPT !.raised = TRUE]
         ELSE [s EXCEPT !.gestures = @ \o KeyGesture(e.key),
                        !.meta = @ \o [i \in 1..Len(KeyGesture(e.key)) |-> Meta("key", 0, << >>, << >>)]]
    ELSE s

\* One iteration of "for event in pygame.event.get()".
HandleEvent(s, e, now) ==
    IF e.type = "QUIT" THEN [s EXCEPT !.raised = TRUE]
    ELSE IF e.type \in {"MOUSEBUTTONDOWN", "FINGERDOWN"}
    THEN [s EXCEPT !.start = EventPos(e), !.time = now, !.downs = @ + 1, !.emitted = << >>,
                   !.last_down = EventPos(e), !.held = NoTouch]
    ELSE IF e.type \in {"MOUSEBUTTONUP", "FINGERUP"}
    THEN IF s.start = NoTouch
         THEN [s EXCEPT !.idle_ups = @ + 1, !.held = NoTouch,
                        !.late_up = IF s.held # NoTouch THEN << s.held, EventPos(e) >> ELSE @]
         ELSE LET x  == EventPos(e)[1]
                  y  == EventPos(e)[2]
                  sx == s.start[1]
                  sy == s.start[2]
                  duration == now - s.time
              IN  [s EXCEPT !.gestures = Append(@, Classify(sx, sy, x, y, x - sx, y - sy, duration)),
                            !.meta = Append(@, Meta("up", duration, EventPos(e), s.start)),
                            !.emitted = Append(@, "up"),
                            !.ups = @ + 1,
                            !.start = NoTouch]
    ELSE IF e.type = "KEYDOWN"
    THEN IF e.key = "K_q" THEN [s EXCEPT !.raised = TRUE]
         ELSE [s EXCEPT !.gestures = @ \o KeyGesture(e.key),
                        !.meta = @ \o [i \in 1..Len(KeyGesture(e.key)) |-> Meta("key", 0, << >>, << >>)]]
    ELSE s

\* The check for a held long press without "self._touch_start = None".
HoldCheckKeepSession(s, now) ==
    IF ~s.raised /\ s.start # NoTouch /\ now - s.time > LONG_PRESS_MS
    THEN [s EXCEPT !.gestures = Append(@, Gesture("LONG_PRESS", s.start[1], s.start[2],
                                                   s.start[1], s.start[2])),
                   !.meta = Append(@, Meta("hold", now - s.time, << >>, s.start)),
                   !.emitted = Append(@, "hold"),
                   !.held = s.start]
    ELSE s

\* "Check for long press while still holding", after the event loop.
HoldCheck(s, now) ==
    IF ~s.raised /\ s.start # NoTouch /\ now - s.time > LONG_PRESS_MS
    THEN [s EXCEPT !.gestures = Append(@, Gesture("LONG_PRESS", s.start[1], s.start[2],
                                                   s.start[1], s.start[2])),
                   !.meta = Append(@, Meta("hold", now - s.time, << >>, s.start)),
                   !.emitted = Append(@, "hold"),
                   !.start = NoTouch,
                   !.held = s.start]
    ELSE s

\* ------------------------------------------------------------------ state
VARIABLES
    clock,             \* time.monotonic(), in ms
    touch_start,       \* TouchHandler._touch_start: NoTouch or <<x, y>>
    touch_start_time,  \* TouchHandler._touch_start_time
    emitted,           \* history: what the latest pointer-down's gestures came from
    call,              \* the process_events call in progress, or the latest one
    pc,                \* where ScreenManager.run is
    gestures,          \* run's local list: what process_events returned
    gi,                \* run's position in "for gesture in gestures"
    current_idx,       \* ScreenManager.current_idx, counted from 0
    entered,           \* history: on_enter calls minus on_leave calls, per screen
    calls,             \* history: the calls the latest step of the manager made
    prs,               \* PRTriageScreen.prs
    last_poll,         \* ScreenManager._last_poll
    polls,             \* the _poll_data tasks in flight: where in Refreshed each waits
    poll_cycle,        \* one _poll_data call over screens behind the BaseScreen interface
    home,              \* HomeScreen: pr_count, ci_failing
    pr,                \* PRTriageScreen: current_pr_idx, the ai_ fields, its tasks
    ci,                \* CIDiagnosisScreen: failures, current_idx, diagnosis, its tasks
    refresh_tasks,     \* the _poll_data tasks in flight, with the await each waits in
    refresh_log,       \* history: the refresh_data call that returned in the latest step
    deploy,            \* DeployScreen: deploy_status, confidence, button_rects, its tasks
    conv,              \* ConversationScreen and its VoiceService: state, _streaming, _mic_rect, its tasks
    status_color,      \* run's local status_color: what the latest frame drew in the status bar
    standup,           \* StandupScreen: content_lines, scroll_offset, button_rects, its tasks
    frame              \* whether run is in an iteration ("dispatch") or suspended ("yielded")

vars == << clock, touch_start, touch_start_time, emitted, call, pc, gestures, gi,
           current_idx, entered, calls, prs, last_poll, polls, poll_cycle,
           home, pr, ci, refresh_tasks, refresh_log, deploy, frame, conv, status_color,
           standup >>

touchVars == << touch_start, touch_start_time, emitted, call >>
navVars == << current_idx, entered, calls >>
\* The state of the main loop and of the classifier.
loopVars == << clock, touch_start, touch_start_time, emitted, call, pc, gestures, gi,
               current_idx, entered, calls, prs, last_poll, polls >>
\* The state of the screens and tasks the main-loop model leaves as constructed.
viewVars == << poll_cycle, home, pr, ci, refresh_tasks, refresh_log, deploy, frame, conv, status_color,
           standup >>

\* ---------------------------------------------------------------- screens
\* ScreenManager.__init__: the screen list, in navigation order.
ScreenNames == << "home", "pr_triage", "ci_diagnosis", "standup", "deploy", "context_chat" >>
NumScreens == Len(ScreenNames)
Screens == 0 .. NumScreens - 1
NameOf(i) == ScreenNames[i + 1]

\* A call, as the history records it: a hook of screen number screen (arg
\* is what on_swipe_left/right returned), the assignment of current_idx
\* ("set_idx"), or navigate / navigate_to called with screen current (arg
\* is the argument).
Call(op, screen, arg) == << op, screen, arg >>

\* PRTriageScreen.on_swipe_left / BaseScreen.on_swipe_left: TRUE when the
\* screen consumed the gesture.  (The review task the PR screen creates
\* writes only that screen's card index and analysis fields.)
OnSwipeLeft(i) == NameOf(i) = "pr_triage" /\ prs # << >>

\* BaseScreen.on_swipe_right on every screen: the PR screen without its override.
OnSwipeRightBase(i) == FALSE

\* PRTriageScreen.on_swipe_right / BaseScreen.on_swipe_right.
OnSwipeRight(i) == NameOf(i) = "pr_triage" /\ prs # << >>

Bool(b) == IF b THEN "True" ELSE "False"
DirStr(direction) == IF direction < 0 THEN "-1" ELSE "+1"
DirOf(str) == IF str = "-1" THEN -1 ELSE 1

\* The result of a navigation: the new index and the calls made, in order.
NavResult(idx, cs) == [idx |-> idx, calls |-> cs]

\* The transition with on_leave called last.
TransitionEnterFirst(old, new) ==
    NavResult(new, << Call("set_idx", new, ""), Call("on_enter", new, ""),
                      Call("on_leave", old, "") >>)

\* The transition without on_leave.
TransitionNoLeave(old, new) ==
    NavResult(new, << Call("set_idx", new, ""), Call("on_enter", new, "") >>)

\* on_leave of the current screen, the new index, on_enter of the new
\* current screen (the body of navigate's and navigate_to's "if").
Transition(old, new) ==
    NavResult(new, << Call("on_leave", old, ""), Call("set_idx", new, ""),
                      Call("on_enter", new, "") >>)

\* navigate wrapping around the ends of the list.
NavigateWrap(idx, direction) ==
    LET t == Transition(idx, (idx + direction) % NumScreens)
    IN  NavResult(t.idx, << Call("navigate", idx, DirStr(direction)) >> \o t.calls)

\* navigate without the range check.
NavigateNoCheck(idx, direction) ==
    LET t == Transition(idx, idx + direction)
    IN  NavResult(t.idx, << Call("navigate", idx, DirStr(direction)) >> \o t.calls)

\* ScreenManager.navigate
Navigate(idx, direction) ==
    LET new_idx == idx + direction
        t == IF 0 <= new_idx /\ new_idx < NumScreens
             THEN Transition(idx, new_idx)
             ELSE NavResult(idx, << >>)
    IN  NavResult(t.idx, << Call("navigate", idx, DirStr(direction)) >> \o t.calls)

\* The indices of the screens with this name, and the first of them.
Matches(name) == { i \in Screens : NameOf(i) = name }
FirstMatch(name) == CHOOSE i \in Matches(name) : \A j \in Matches(name) : i <= j

\* navigate_to without "if i != self.current_idx".
NavigateToAlways(idx, name) ==
    LET t == IF Matches(name) = {} THEN NavResult(idx, << >>)
             ELSE Transition(idx, FirstMatch(name))
    IN  NavResult(t.idx, << Call("navigate_to", idx, name) >> \o t.calls)

\* ScreenManager.navigate_to
NavigateTo(idx, name) ==
    LET t == IF Matches(name) = {} THEN NavResult(idx, << >>)
             ELSE IF FirstMatch(name) # idx THEN Transition(idx, FirstMatch(name))
             ELSE NavResult(idx, << >>)
    IN  NavResult(t.idx, << Call("navigate_to", idx, name) >> \o t.calls)

\* on_enter calls minus on_leave calls after the calls cs.
RECURSIVE Entered(_, _)
Entered(e, cs) ==
    IF cs = << >> THEN e
    ELSE LET c == Head(cs)
             d == IF c[1] = "on_enter" THEN 1 ELSE IF c[1] = "on_leave" THEN -1 ELSE 0
         IN  Entered(IF c[2] \in DOMAIN e THEN [e EXCEPT ![c[2]] = @ + d] ELSE e, Tail(cs))

\* The dispatch navigating whatever the screen's swipe hook returned.
DispatchIgnoreVeto(g, idx) ==
    CASE g.type = "SWIPE_LEFT" ->
            LET n == Navigate(idx, 1)
            IN  NavResult(n.idx, << Call("on_swipe_left", idx, Bool(OnSwipeLeft(idx))) >> \o n.calls)
      [] g.type = "SWIPE_RIGHT" ->
            LET n == Navigate(idx, -1)
            IN  NavResult(n.idx, << Call("on_swipe_right", idx, Bool(OnSwipeRight(idx))) >> \o n.calls)
      [] g.type = "TAP" -> NavResult(idx, << Call("on_tap", idx, "") >>)
      [] g.type = "SWIPE_UP" -> NavResult(idx, << Call("on_swipe_up", idx, "") >>)
      [] g.type = "LONG_PRESS" -> NavResult(idx, << Call("on_long_press", idx, "") >>)
      [] OTHER -> NavResult(idx, << >>)

\* The dispatch navigating twice for a swipe left.
DispatchTwice(g, idx) ==
    CASE g.type = "SWIPE_LEFT" ->
            IF OnSwipeLeft(idx)
            THEN NavResult(idx, << Call("on_swipe_left", idx, "True") >>)
            ELSE LET n == Navigate(idx, 1)
                     m == Navigate(n.idx, 1)
                 IN  NavResult(m.idx, << Call("on_swipe_left", idx, "False") >> \o n.calls \o m.calls)
      [] g.type = "SWIPE_RIGHT" ->
            IF OnSwipeRight(idx)
            THEN NavResult(idx, << Call("on_swipe_right", idx, "True") >>)
            ELSE LET n == Navigate(idx, -1)
                 IN  NavResult(n.idx, << Call("on_swipe_right", idx, "False") >> \o n.calls)
      [] g.type = "TAP" -> NavResult(idx, << Call("on_tap", idx, "") >>)
      [] g.type = "SWIPE_UP" -> NavResult(idx, << Call("on_swipe_up", idx, "") >>)
      [] g.type = "LONG_PRESS" -> NavResult(idx, << Call("on_long_press", idx, "") >>)
      [] OTHER -> NavResult(idx, << >>)

\* The dispatch with a branch for SwipeDown that calls on_swipe_down.
DispatchSwipeDown(g, idx) ==
    CASE g.type = "SWIPE_LEFT" ->
            IF OnSwipeLeft(idx)
            THEN NavResult(idx, << Call("on_swipe_left", idx, "True") >>)
            ELSE LET n == Navigate(idx, 1)
                 IN  NavResult(n.idx, << Call("on_swipe_left", idx, "False") >> \o n.calls)
      [] g.type = "SWIPE_RIGHT" ->
            IF OnSwipeRight(idx)
            THEN NavResult(idx, << Call("on_swipe_right", idx, "True") >>)
            ELSE LET n == Navigate(idx, -1)
                 IN  NavResult(n.idx, << Call("on_swipe_right", idx, "False") >> \o n.calls)
      [] g.type = "TAP" -> NavResult(idx, << Call("on_tap", idx, "") >>)
      [] g.type = "SWIPE_UP" -> NavResult(idx, << Call("on_swipe_up", idx, "") >>)
      [] g.type = "SWIPE_DOWN" -> NavResult(idx, << Call("on_swipe_down", idx, "") >>)
      [] g.type = "LONG_PRESS" -> NavResult(idx, << Call("on_long_press", idx, "") >>)
      [] OTHER -> NavResult(idx, << >>)

\* The body of "for gesture in gestures" in ScreenManager.run, for gesture g
\* with screen idx current.
Dispatch(g, idx) ==
    CASE g.type = "SWIPE_LEFT" ->
            IF OnSwipeLeft(idx)
            THEN NavResult(idx, << Call("on_swipe_left", idx, "True") >>)
            ELSE LET n == Navigate(idx, 1)
                 IN  NavResult(n.idx, << Call("on_swipe_left", idx, "False") >> \o n.calls)
      [] g.type = "SWIPE_RIGHT" ->
            IF OnSwipeRight(idx)
            THEN NavResult(idx, << Call("on_swipe_right", idx, "True") >>)
            ELSE LET n == Navigate(idx, -1)
                 IN  NavResult(n.idx, << Call("on_swipe_right", idx, "False") >> \o n.calls)
      [] g.type = "TAP" -> NavResult(idx, << Call("on_tap", idx, "") >>)
      [] g.type = "SWIPE_UP" -> NavResult(idx, << Call("on_swipe_up", idx, "") >>)
      [] g.type = "LONG_PRESS" -> NavResult(idx, << Call("on_long_press", idx, "") >>)
      [] OTHER -> NavResult(idx, << >>)


\* ------------------------------------------------------------ environment
\* The raw events the classifier is driven with on its own: pointer positions
\* on both sides of the swipe threshold on each axis, a finger position, every
\* key of the keyboard fallback, a key without a mapping, and event kinds the
\* handler ignores.
TouchPoints == { <<100, 100>>, <<150, 150>>, <<151, 100>>, <<100, 151>>, <<160, 160>> }
FingerPoints == { <<250, 500>> }
Keys == { "K_LEFT", "K_RIGHT", "K_UP", "K_DOWN", "K_RETURN", "K_q", "K_a" }
TouchEvents ==
    { Event(t, p, "") : t \in {"MOUSEBUTTONDOWN", "MOUSEBUTTONUP"}, p \in TouchPoints }
    \cup { Event(t, p, "") : t \in {"FINGERDOWN", "FINGERUP"}, p \in FingerPoints }
    \cup { Event("KEYDOWN", << >>, k) : k \in Keys }
    \cup { Event("QUIT", << >>, ""), Event("MOUSEMOTION", <<100, 100>>, "") }

\* The raw events the main loop is driven with: a press, releases that make
\* it a tap, a long press or a swipe, the gesture keys, the quit key and the
\* quit event.
NavEvents ==
    { Event("MOUSEBUTTONDOWN", <<240, 160>>, "") }
    \cup { Event("MOUSEBUTTONUP", p, "") : p \in { <<240, 160>>, <<100, 160>> } }
    \cup { Event("KEYDOWN", << >>, k) : k \in Keys \ {"K_a"} }
    \cup { Event("QUIT", << >>, "") }

\* What the cache returns for the pending PRs: PR numbers 1..n.
PrResults == { [i \in 1 .. n |-> i] : n \in 0 .. MaxPrs }

\* The locals of a process_events call, as it starts: active says that the
\* call is in its event loop.
NoCall ==
    [active |-> FALSE, gestures |-> << >>, raised |-> FALSE, meta |-> << >>,
     start0 |-> NoTouch, n |-> 0, downs |-> 0, ups |-> 0, idle_ups |-> 0,
     last_down |-> NoTouch, held |-> NoTouch, late_up |-> << >>]
CallOf(s, active) ==
    [active |-> active, gestures |-> s.gestures, raised |-> s.raised, meta |-> s.meta,
     start0 |-> s.start0, n |-> s.n, downs |-> s.downs, ups |-> s.ups,
     idle_ups |-> s.idle_ups, last_down |-> s.last_down, held |-> s.held,
     late_up |-> s.late_up]
\* The same without the history: the locals and the position alone.
LocalsOf(s, active) ==
    [NoCall EXCEPT !.active = active, !.gestures = s.gestures, !.raised = s.raised,
                   !.n = s.n]
Cur == CallState(touch_start, touch_start_time, emitted, call)

\* What the cache returns for the failed CI runs: run ids 1..n.
RunResults == { [i \in 1 .. n |-> i] : n \in 0 .. MaxRuns }

\* What the assistant returns for a diagnosis: every key present, or none
\* (result.get(key, "") then yields "").
DiagnosisResults == { [diagnosis |-> "diagnosis", fix |-> "fix", caused_by |-> "commit"],
                      [diagnosis |-> "", fix |-> "", caused_by |-> ""] }

\* What the cache lists for the PR screen on its own: PR numbers 1..n.
PrLists == { [i \in 1 .. n |-> i] : n \in 0 .. MaxListed }

\* What the assistant returns for a PR analysis: every key present, or none.
PrAnalyses == { [summary |-> "summary", risk |-> "LOW", concern |-> "concern"],
                [summary |-> "", risk |-> "", concern |-> ""] }

\* The points tapped on the PR screen: inside "reject", "skip" and "approve",
\* and inside none.
PrTaps == { <<50, 250>>, <<200, 250>>, <<400, 250>>, <<10, 10>> }

\* No task has ended: the PR the task had read (its local pr) and the PR at
\* prs[current_pr_idx] when it ended, 0 for none.
NoEnd == [item |-> 0, shown |-> 0]

\* ConversationScreen.__init__ with VoiceService.__init__.  started says that
\* main has awaited voice_svc.start(); mic_rect holds the rectangle of the mic
\* button once it was drawn; tasks are the _voice_flow tasks that have not
\* ended, each with the await it waits in; messages holds the role of each
\* message.
NoConv == [started |-> FALSE, mic_available |-> FALSE, state |-> "IDLE",
           streaming |-> FALSE, mic_rect |-> << >>, messages |-> << >>, tasks |-> << >>]

\* The points tapped on the conversation screen: inside the mic button and
\* outside of it.
ConvTaps == { <<200, 290>>, <<10, 10>> }

\* How an await of a voice flow ends: with a text, with an empty text, or with
\* an exception.
Outcomes == { "text", "empty", "raises" }

\* StandupScreen.__init__.  content_lines is the number of lines.
NoStandup == [content_lines |-> 0, scroll_offset |-> 0, loading |-> FALSE,
              generated_today |-> FALSE, button_rects |-> << >>, tasks |-> << >>]

\* The gestures process_events returns to the loop around the standup screen:
\* the gestures of the arrow keys, taps inside "generate", inside "copy" and
\* inside neither, and a long press.
StandupGestures ==
    { KeyGesture(k)[1] : k \in {"K_LEFT", "K_RIGHT", "K_UP", "K_DOWN"} }
    \cup { Gesture("TAP", p[1], p[2], p[1], p[2]) : p \in { <<200, 200>>, <<200, 250>>, <<10, 10>> } }
    \cup { Gesture("LONG_PRESS", 10, 10, 10, 10) }

\* The history of the task that ended is that of the latest step.
Quiet(p) == [p EXCEPT !.analysis = NoEnd, !.review = NoEnd]

\* PRTriageScreen.__init__ (prs is a variable of its own).  tasks are the
\* coroutines the screen created that have not ended, current says that the
\* manager shows the screen.  History: crashed, where "self.prs
\* [self.current_pr_idx]" raised an IndexError; ai_of, the PR whose analysis
\* wrote the ai_ fields; analysis and review, the analysis or the review
\* task that ended in the latest step.
NoPr == [current_pr_idx |-> 0, ai_summary |-> "", ai_risk |-> "", ai_concern |-> "",
         loading |-> FALSE, button_rects |-> << >>, tasks |-> << >>, current |-> FALSE,
         crashed |-> "", ai_of |-> 0, analysis |-> NoEnd, review |-> NoEnd]

\* CIDiagnosisScreen.__init__.  current says that the manager shows the
\* screen; crashed is history: where "self.failures[self.current_idx]" raised
\* an IndexError ("render", which ends run, or "task", which ends the task).
NoCi == [failures |-> << >>, current_idx |-> 0, diagnosis |-> "", fix_suggestion |-> "",
         caused_by |-> "", loading |-> FALSE, button_rects |-> << >>, tasks |-> << >>,
         current |-> FALSE, crashed |-> ""]

\* The points tapped on the CI screen: inside "fix", inside "dismiss", and
\* inside neither.
CiTaps == { <<100, 250>>, <<300, 250>>, <<10, 10>> }

\* What the assistant returns for a deploy analysis: a confidence at the
\* threshold, one just under it, and a result without the keys
\* (result.get then yields 0 and "UNKNOWN").
AnalysisResults == { [confidence |-> 70, risk |-> "LOW"],
                     [confidence |-> 69, risk |-> "MEDIUM"],
                     [confidence |-> 0, risk |-> "UNKNOWN"] }

\* The points tapped on the Deploy screen: inside "confirm" alone, inside
\* "analyze" and "confirm", inside "analyze" and "diagnose", and inside none.
DeployTaps == { <<100, 250>>, <<150, 230>>, <<200, 210>>, <<10, 10>> }

\* No deployment has been started.
NoLaunch == [status |-> "", confidence |-> 0]

\* DeployScreen.__init__.  current says that the manager shows the screen,
\* on_press that the physical button's callback is registered.  History:
\* drawn, the buttons the latest render drew; launch, the state in which the
\* latest deployment was started.
NoDeploy == [deploy_status |-> "idle", confidence |-> 0, risk_level |-> "",
             button_rects |-> << >>, tasks |-> << >>, current |-> FALSE,
             on_press |-> FALSE, drawn |-> {}, launch |-> NoLaunch]

\* No refresh_data call returned in the latest step.
NoRefresh == [screen |-> "", failed |-> FALSE, wrote |-> FALSE, before |-> << >>]

\* No _poll_data call has been made: raises is the set of screens whose
\* refresh_data raises, i the position of "for screen in self.screens", ran
\* the screens whose refresh_data was awaited, caught whether the except
\* clause of _poll_data ran, done whether the coroutine returned.
NoCycle == [active |-> FALSE, raises |-> {}, i |-> 0, ran |-> {}, caught |-> FALSE,
            done |-> FALSE]

\* ------------------------------------------------------------------ init
Init ==
    /\ clock = 0
    /\ touch_start = NoTouch
    /\ touch_start_time = 0
    /\ emitted = << >>
    /\ call = NoCall
    /\ pc = "init"
    /\ gestures = << >>
    /\ gi = 0
    /\ current_idx = 0
    /\ entered = [i \in Screens |-> 0]
    /\ calls = << >>
    /\ prs = << >>
    /\ last_poll = 0
    /\ polls = << >>
    /\ poll_cycle = NoCycle
    /\ home = [pr_count |-> 0, ci_failing |-> 0]
    /\ pr = NoPr
    /\ ci = NoCi
    /\ refresh_tasks = << >>
    /\ refresh_log = NoRefresh
    /\ deploy = NoDeploy
    /\ frame = "dispatch"
    /\ conv = NoConv
    /\ status_color = ""
    /\ standup = NoStandup

\* ----------------------------------------------- TouchHandler.process_events
\* process_events starts: gestures = [], and pygame.event.get() drains the
\* queue (what it holds is chosen event by event, in EventStep).
\* history says whether the call's history is recorded: it is when the
\* classifier is driven alone, and not under the main loop.
BeginCall(history) ==
    /\ ~call.active
    /\ ~call.raised
    /\ call' = [NoCall EXCEPT !.active = TRUE,
                              !.start0 = IF history THEN touch_start ELSE NoTouch,
                              !.held = IF history THEN call.held ELSE NoTouch]

\* One iteration of the event loop, on a next event from E.  SystemExit ends
\* the call and its caller: nothing is returned.
EventStep(E, history) ==
    /\ call.active
    /\ call.n < MaxEvents
    /\ \E e \in E :
          LET s == HandleEvent(Cur, e, clock)
              t == [s EXCEPT !.n = @ + 1]
          IN  /\ touch_start' = s.start
              /\ touch_start_time' = s.time
              /\ emitted' = IF history THEN s.emitted ELSE emitted
              /\ call' = IF history THEN CallOf(t, ~s.raised) ELSE LocalsOf(t, ~s.raised)

\* The event loop is over: the check for a held long press, and the return.
EndCall(history) ==
    /\ call.active
    /\ LET s == HoldCheck(Cur, clock)
       IN  /\ touch_start' = s.start
           /\ touch_start_time' = s.time
           /\ emitted' = IF history THEN s.emitted ELSE emitted
           /\ call' = IF history THEN CallOf(s, FALSE) ELSE LocalsOf(s, FALSE)
           /\ gestures' = s.gestures

\* --------------------------------------------------- the classifier alone
\* Time passes between two calls of process_events.
TouchTick ==
    /\ pc = "init"
    /\ ~call.active
    /\ ~call.raised
    /\ clock + TickMs <= MaxTicks * TickMs
    /\ clock' = clock + TickMs
    /\ UNCHANGED << touchVars, pc, gestures, gi, navVars, prs, last_poll, polls, viewVars >>

\* A caller calls process_events; the list the last call returned is gone.
TouchBegin ==
    /\ pc = "init"
    /\ BeginCall(TRUE)
    /\ gestures' = << >>
    /\ UNCHANGED << clock, touch_start, touch_start_time, emitted, pc, gi,
                    navVars, prs, last_poll, polls, viewVars >>

TouchEvent ==
    /\ pc = "init"
    /\ EventStep(TouchEvents, TRUE)
    /\ UNCHANGED << clock, pc, gestures, gi, navVars, prs, last_poll, polls, viewVars >>

TouchReturn ==
    /\ pc = "init"
    /\ EndCall(TRUE)
    /\ UNCHANGED << clock, pc, gi, navVars, prs, last_poll, polls, viewVars >>

TouchNext == TouchTick \/ TouchBegin \/ TouchEvent \/ TouchReturn

TouchSpec == Init /\ [][TouchNext]_vars

\* ----------------------------------------------------- ScreenManager.run
\* run: self.screens[0].on_enter(), then the loop.
RunStart ==
    /\ pc = "init"
    /\ ~call.active
    /\ ~call.raised
    /\ calls' = << Call("on_enter", 0, "") >>
    /\ entered' = Entered(entered, calls')
    /\ pc' = "top"
    /\ UNCHANGED << clock, touchVars, gestures, gi, current_idx, prs, last_poll, polls, viewVars >>

\* "while not shutdown_event.is_set()": the event is set and the loop ends.
RunStop ==
    /\ pc = "top"
    /\ pc' = "stopped"
    /\ calls' = << >>
    /\ UNCHANGED << clock, touchVars, gestures, gi, current_idx, entered, prs, last_poll, polls, viewVars >>

\* gestures = self.touch.process_events(): the call starts.
RunBeginEvents ==
    /\ pc = "top"
    /\ BeginCall(FALSE)
    /\ pc' = "events"
    /\ calls' = << >>
    /\ UNCHANGED << clock, touch_start, touch_start_time, emitted, gestures, gi,
                    current_idx, entered, prs, last_poll, polls, viewVars >>

\* One event of the call, with the quit request swallowed: run goes on with
\* the gestures classified so far.
RunEventSwallowQuit ==
    /\ pc = "events"
    /\ EventStep(NavEvents, FALSE)
    /\ pc' = IF call'.raised THEN "dispatch" ELSE pc
    /\ gestures' = IF call'.raised THEN call'.gestures ELSE gestures
    /\ gi' = IF call'.raised THEN 1 ELSE gi
    /\ UNCHANGED << clock, navVars, prs, last_poll, polls, viewVars >>

\* One event of the call.  SystemExit propagates out of run.
RunEvent ==
    /\ pc = "events"
    /\ EventStep(NavEvents, FALSE)
    /\ pc' = IF call'.raised THEN "exit" ELSE pc
    /\ UNCHANGED << clock, gestures, gi, navVars, prs, last_poll, polls, viewVars >>

\* The call returns its gestures.
RunEndEvents ==
    /\ pc = "events"
    /\ EndCall(FALSE)
    /\ gi' = 1
    /\ pc' = "dispatch"
    /\ UNCHANGED << clock, navVars, prs, last_poll, polls, viewVars >>

\* One iteration of "for gesture in gestures".
RunDispatch ==
    /\ pc = "dispatch"
    /\ gi <= Len(gestures)
    /\ LET d == Dispatch(gestures[gi], current_idx)
       IN  /\ current_idx' = d.idx
           /\ calls' = d.calls
           /\ entered' = Entered(entered, d.calls)
    /\ gi' = gi + 1
    /\ UNCHANGED << clock, touchVars, pc, gestures, prs, last_poll, polls, viewVars >>

\* "Periodic data refresh", after the last gesture: the timestamp is set and
\* the task created in the same step.
RunPoll ==
    /\ pc = "dispatch"
    /\ gi > Len(gestures)
    /\ IF clock - last_poll > PollIntervalMs
       THEN /\ Len(polls) < MaxPolls
            /\ last_poll' = clock
            /\ polls' = Append(polls, 1)
       ELSE UNCHANGED << last_poll, polls, conv, status_color, standup >>
    /\ pc' = "render"
    /\ gestures' = << >>
    /\ gi' = 0
    /\ call' = NoCall
    /\ calls' = << >>
    /\ UNCHANGED << clock, touch_start, touch_start_time, emitted, current_idx, entered, prs, viewVars >>

\* The render block: the status bar, the current screen, the navigation bar,
\* flip, and the frame-pacing wait clock.tick(fps), during which time passes.
RunRender ==
    /\ pc = "render"
    /\ \E dt \in {0, TickMs} :
          /\ clock + dt <= MaxTicks * TickMs
          /\ clock' = clock + dt
    /\ pc' = "yield"
    /\ UNCHANGED << touchVars, gestures, gi, navVars, prs, last_poll, polls, viewVars >>

\* await asyncio.sleep(0) returns.
RunYield ==
    /\ pc = "yield"
    /\ pc' = "top"
    /\ calls' = << >>
    /\ UNCHANGED << clock, touchVars, gestures, gi, current_idx, entered, prs, last_poll, polls, viewVars >>

\* ------------------------------------------- tasks run while run is suspended
\* The screens whose refresh_data suspends (it awaits the cache): a _poll_data
\* task waits in them in turn.  The refresh_data of the screens after them
\* returns without suspending, so the task ends with the last of them.
Refreshed == << "home", "pr_triage", "ci_diagnosis" >>

\* _poll_data: the refresh_data a task waits in returns.  The PR screen's
\* assigns prs the cache's answer, or catches the cache's exception and
\* leaves prs as it was.
PollStep ==
    /\ pc = "yield"
    /\ \E t \in 1 .. Len(polls) :
          LET i == polls[t]
          IN  /\ IF Refreshed[i] = "pr_triage"
                 THEN \E res \in PrResults, raises \in BOOLEAN :
                         prs' = IF raises THEN prs ELSE res
                 ELSE UNCHANGED prs
              /\ polls' = IF i < Len(Refreshed)
                          THEN [polls EXCEPT ![t] = i + 1]
                          ELSE SubSeq(polls, 1, t - 1) \o SubSeq(polls, t + 1, Len(polls))
    /\ calls' = << >>
    /\ UNCHANGED << clock, touchVars, pc, gestures, gi, current_idx, entered, last_poll, viewVars >>

\* A call of navigate(-1) or navigate(+1) from a task.
ApiNavigate ==
    /\ pc = "yield"
    /\ \E direction \in {-1, 1} :
          LET n == Navigate(current_idx, direction)
          IN  /\ current_idx' = n.idx
              /\ calls' = n.calls
              /\ entered' = Entered(entered, n.calls)
    /\ UNCHANGED << clock, touchVars, pc, gestures, gi, prs, last_poll, polls, viewVars >>

\* A call of navigate_to(name) from a task, with a screen's name or another.
ApiNavigateTo ==
    /\ pc = "yield"
    /\ \E name \in { NameOf(i) : i \in Screens } \cup { "settings" } :
          LET n == NavigateTo(current_idx, name)
          IN  /\ current_idx' = n.idx
              /\ calls' = n.calls
              /\ entered' = Entered(entered, n.calls)
    /\ UNCHANGED << clock, touchVars, pc, gestures, gi, prs, last_poll, polls, viewVars >>

Next ==
    \/ RunStart
    \/ RunStop
    \/ RunBeginEvents
    \/ RunEvent
    \/ RunEndEvents
    \/ RunDispatch
    \/ RunPoll
    \/ RunRender
    \/ RunYield
    \/ PollStep
    \/ ApiNavigate
    \/ ApiNavigateTo

Spec == Init /\ [][Next]_vars

\* ------------------------------------------- ScreenManager._poll_data alone
\* _poll_data against the BaseScreen interface: refresh_data is the method a
\* screen overrides, and an override either returns or raises.  The set of
\* the screens whose refresh_data raises is the input of one call.
\* asyncio.create_task(self._poll_data()): the coroutine starts.
PollDataBegin ==
    /\ ~poll_cycle.active
    /\ \E raises \in SUBSET Screens :
          poll_cycle' = [NoCycle EXCEPT !.active = TRUE, !.raises = raises]
    /\ UNCHANGED << loopVars, home, pr, ci, refresh_tasks, refresh_log, deploy, frame, conv, status_color, standup >>

\* "await screen.refresh_data()" for the next screen of the list.  The try
\* statement encloses the for loop: an exception ends the loop, is logged by
\* the except clause, and the coroutine returns.
PollDataRefresh ==
    /\ poll_cycle.active
    /\ LET i == poll_cycle.i
       IN  poll_cycle' =
              IF i \in poll_cycle.raises
              THEN [poll_cycle EXCEPT !.ran = @ \cup {i}, !.caught = TRUE,
                                      !.active = FALSE, !.done = TRUE]
              ELSE [poll_cycle EXCEPT !.ran = @ \cup {i}, !.i = i + 1,
                                      !.active = (i + 1 < NumScreens),
                                      !.done = (i + 1 = NumScreens)]
    /\ UNCHANGED << loopVars, home, pr, ci, refresh_tasks, refresh_log, deploy, frame, conv, status_color, standup >>

PollDataNext == PollDataBegin \/ PollDataRefresh

PollDataSpec == Init /\ [][PollDataNext]_vars

\* ---------------------------------------------------- BaseScreen.on_tap
\* pygame.Rect(x, y, w, h) and Rect.collidepoint: the right and bottom edges
\* are outside.
Rect(x, y, w, h) == [x |-> x, y |-> y, w |-> w, h |-> h]
CollidePoint(rect, p) ==
    /\ rect.x <= p[1] /\ p[1] < rect.x + rect.w
    /\ rect.y <= p[2] /\ p[2] < rect.y + rect.h

\* self.button_rects is a dict: a sequence of <<name, rect>> in the order the
\* names were first assigned.  "self.button_rects[name] = rect" replaces the
\* rect of a name the dict holds and appends a new name.
Names(button_rects) == { button_rects[i][1] : i \in 1 .. Len(button_rects) }
Register(button_rects, name, rect) ==
    IF name \in Names(button_rects)
    THEN [i \in 1 .. Len(button_rects) |->
             IF button_rects[i][1] = name THEN << name, rect >> ELSE button_rects[i]]
    ELSE Append(button_rects, << name, rect >>)

\* on_tap: the name of the first button whose rect holds the point, which is
\* handed to on_button_tap, or "" when there is none.
RECURSIVE OnTap(_, _)
OnTap(button_rects, p) ==
    IF button_rects = << >> THEN ""
    ELSE IF CollidePoint(Head(button_rects)[2], p) THEN Head(button_rects)[1]
    ELSE OnTap(Tail(button_rects), p)

\* btn_y of the screens' render: the row of the action buttons.
ButtonRowY == DisplayHeight - NAV_BAR_HEIGHT - BUTTON_HEIGHT - 8

\* ------------------------------------------------- tasks a screen creates
\* A coroutine handed to asyncio.create_task: at "new" it has not run yet, at
\* "await" it waits for its collaborator's answer; item is its local variable
\* (the PR or the failed run it read when it started).
Task(kind, at, item) == [kind |-> kind, at |-> at, item |-> item]
Spawn(tasks, kind) == Append(tasks, Task(kind, "new", 0))
Remove(seq, t) == SubSeq(seq, 1, t - 1) \o SubSeq(seq, t + 1, Len(seq))
\* The tasks created before the loop yields all run to their first await
\* while it is suspended.
AllStarted(tasks) == \A t \in 1 .. Len(tasks) : tasks[t].at # "new"

\* ------------------------------------------------------ CIDiagnosisScreen
\* refresh_data, once "await self.db.get_failed_runs()" has returned runs.
CiRefreshData(c, runs) ==
    [c EXCEPT !.failures = runs,
              !.tasks = IF runs # << >> /\ c.diagnosis = "" THEN Spawn(@, "diagnose") ELSE @]

\* on_enter: a diagnosis is started when there is a failure and none yet.
CiOnEnter(c) ==
    [c EXCEPT !.current = TRUE,
              !.tasks = IF c.failures # << >> /\ c.diagnosis = ""
                        THEN Spawn(@, "diagnose") ELSE @]

\* _next_failure.
CiNextFailure(c) ==
    LET d == [c EXCEPT !.diagnosis = "", !.fix_suggestion = "", !.caused_by = ""]
    IN  IF c.failures # << >>
        THEN [d EXCEPT !.current_idx = (c.current_idx + 1) % Len(c.failures),
                       !.tasks = Spawn(@, "diagnose")]
        ELSE d

\* on_button_tap.
CiOnButtonTap(c, button_name) ==
    IF button_name = "fix" THEN [c EXCEPT !.tasks = Spawn(@, "fix")]
    ELSE IF button_name = "dismiss" THEN CiNextFailure(c)
    ELSE c

\* render: "failure = self.failures[self.current_idx]" raises IndexError when
\* the index is past the end, and the exception leaves the main loop.
CiRender(c) ==
    IF c.failures = << >> THEN c
    ELSE IF c.current_idx >= Len(c.failures) THEN [c EXCEPT !.crashed = "render"]
    ELSE IF c.diagnosis # "" /\ ~c.loading
         THEN [c EXCEPT !.button_rects =
                  Register(Register(@, "fix", Rect(12, ButtonRowY, 220, BUTTON_HEIGHT)),
                           "dismiss", Rect(248, ButtonRowY, 140, BUTTON_HEIGHT))]
         ELSE c

\* Task t runs from its start to its first await: _diagnose_current sets
\* _loading before it reads the failure, _create_fix_pr sets nothing.  An
\* IndexError ends the task there.
CiTaskStart(c, t) ==
    LET k == c.tasks[t].kind
        l == [c EXCEPT !.loading = IF k = "diagnose" THEN TRUE ELSE @]
    IN  IF c.failures = << >> THEN [c EXCEPT !.tasks = Remove(@, t)]
        ELSE IF c.current_idx >= Len(c.failures)
        THEN [l EXCEPT !.crashed = "task", !.tasks = Remove(@, t)]
        ELSE [l EXCEPT !.tasks[t] = Task(k, "await", c.failures[c.current_idx + 1])]

\* The collaborator's call of task t returns result (a diagnosis, or anything
\* for a fix) or raises.
CiTaskEnd(c, t, result, raises) ==
    LET k == c.tasks[t].kind
        d == [c EXCEPT !.tasks = Remove(@, t)]
    IN  IF k = "diagnose"
        THEN IF raises
             THEN [d EXCEPT !.diagnosis = "Diagnosis unavailable", !.loading = FALSE]
             ELSE [d EXCEPT !.diagnosis = result.diagnosis, !.fix_suggestion = result.fix,
                            !.caused_by = result.caused_by, !.loading = FALSE]
        ELSE IF raises THEN d ELSE CiNextFailure(d)

\* The event loop runs a task of the screen one step.
CiTaskStep ==
    /\ frame = "yielded"
    /\ \E t \in 1 .. Len(ci.tasks) :
          IF ci.tasks[t].at = "new"
          THEN ci' = CiTaskStart(ci, t)
          ELSE \E result \in DiagnosisResults, raises \in BOOLEAN :
                  ci' = CiTaskEnd(ci, t, result, raises)
    /\ Len(ci'.tasks) <= MaxScreenTasks
    /\ refresh_log' = NoRefresh
    /\ UNCHANGED << loopVars, poll_cycle, home, pr, refresh_tasks, deploy, frame, conv, status_color, standup >>

\* ---------------------------------------- the main loop and its refresh tasks
\* The view-state fields of a screen that refresh_data assigns.
ViewOf(screen) ==
    CASE screen = "home" -> << home.pr_count, home.ci_failing >>
      [] screen = "pr_triage" -> << prs, pr.current_pr_idx >>
      [] screen = "ci_diagnosis" -> << ci.failures >>
      [] OTHER -> << >>

\* A _poll_data task suspended in the await named wait of the refresh_data of
\* screen; before is history, the screen's view-state when that refresh_data
\* was called, wrote whether the call has assigned a field since, and
\* created the time at which the task was created.
RefreshTask(screen, wait, created) ==
    [screen |-> screen, wait |-> wait, before |-> ViewOf(screen), wrote |-> FALSE,
     created |-> created]
Returned(task, failed) ==
    [screen |-> task.screen, failed |-> failed, wrote |-> task.wrote, before |-> task.before]

\* The refresh_data without "self.current_pr_idx = 0".
PrRefreshDataNoReset(p, res) == p

\* PRTriageScreen.refresh_data, once the cache has returned res.
PrRefreshData(p, res) ==
    [p EXCEPT !.current_pr_idx = IF @ >= Len(res) THEN 0 ELSE @]

\* The iteration without "self._last_poll = now".
IdleFrameNoStamp ==
    /\ AllStarted(ci.tasks)
    /\ IF clock - last_poll > PollIntervalMs
       THEN /\ Len(refresh_tasks) < MaxTasks
            /\ UNCHANGED last_poll
            /\ refresh_tasks' = Append(refresh_tasks,
                                    RefreshTask("home", "get_pending_prs", clock))
       ELSE UNCHANGED << last_poll, refresh_tasks, conv, status_color, standup >>
    /\ \E dt \in {0, TickMs} :
          /\ clock + dt <= MaxPollTicks * TickMs
          /\ clock' = clock + dt
    /\ refresh_log' = NoRefresh
    /\ frame' = "yielded"
    /\ UNCHANGED << touchVars, pc, gestures, gi, navVars, prs, polls, poll_cycle, home, pr, ci,
                    deploy, conv, status_color, standup >>

\* One iteration of run with no input event pending: process_events returns
\* nothing, the refresh is scheduled when it is due (the timestamp is set and
\* the task created, which then runs to the first await of the first
\* screen's refresh_data), the frame is rendered, and the loop yields after
\* the frame-pacing wait.
IdleFrame ==
    /\ AllStarted(ci.tasks)
    /\ IF clock - last_poll > PollIntervalMs
       THEN /\ Len(refresh_tasks) < MaxTasks
            /\ last_poll' = clock
            /\ refresh_tasks' = Append(refresh_tasks,
                                    RefreshTask("home", "get_pending_prs", clock))
       ELSE UNCHANGED << last_poll, refresh_tasks, conv, status_color, standup >>
    /\ \E dt \in {0, TickMs} :
          /\ clock + dt <= MaxPollTicks * TickMs
          /\ clock' = clock + dt
    /\ refresh_log' = NoRefresh
    /\ frame' = "yielded"
    /\ UNCHANGED << touchVars, pc, gestures, gi, navVars, prs, polls, poll_cycle, home, pr, ci,
                    deploy, conv, status_color, standup >>

\* HomeScreen.refresh_data: an await of the cache returns or raises.  The
\* first answer is assigned to pr_count before the second read is made.
HomeRefreshStep(t) ==
    LET task == refresh_tasks[t]
        next == [refresh_tasks EXCEPT
                    ![t] = RefreshTask("pr_triage", "get_pending_prs", task.created)]
    IN  /\ task.screen = "home"
        /\ \E raises \in BOOLEAN :
              IF raises
              THEN /\ refresh_log' = Returned(task, TRUE)
                   /\ refresh_tasks' = next
                   /\ UNCHANGED home
              ELSE IF task.wait = "get_pending_prs"
              THEN \E res \in PrResults :
                      /\ home' = [home EXCEPT !.pr_count = Len(res)]
                      /\ refresh_tasks' = [refresh_tasks EXCEPT ![t].wait = "get_failed_runs",
                                                                ![t].wrote = TRUE]
                      /\ refresh_log' = NoRefresh
              ELSE \E runs \in RunResults :
                      /\ home' = [home EXCEPT !.ci_failing = Len(runs)]
                      /\ refresh_tasks' = next
                      /\ refresh_log' = Returned([task EXCEPT !.wrote = TRUE], FALSE)
        /\ UNCHANGED << prs, pr, ci, conv, status_color, standup >>

\* PRTriageScreen.refresh_data: the await returns or raises.
PrRefreshStep(t) ==
    LET task == refresh_tasks[t]
    IN  /\ task.screen = "pr_triage"
        /\ \E res \in PrResults, raises \in BOOLEAN :
              /\ prs' = IF raises THEN prs ELSE res
              /\ pr' = IF raises THEN pr ELSE PrRefreshData(pr, res)
              /\ refresh_log' = Returned([task EXCEPT !.wrote = ~raises], raises)
        /\ refresh_tasks' = [refresh_tasks EXCEPT
                            ![t] = RefreshTask("ci_diagnosis", "get_failed_runs", task.created)]
        /\ UNCHANGED << home, ci, conv, status_color, standup >>

\* CIDiagnosisScreen.refresh_data: the await returns or raises.  The
\* refresh_data of the three screens after it returns without suspending, so
\* the task ends in this step.
CiRefreshStep(t) ==
    LET task == refresh_tasks[t]
    IN  /\ task.screen = "ci_diagnosis"
        /\ \E runs \in RunResults, raises \in BOOLEAN :
              /\ ci' = IF raises THEN ci ELSE CiRefreshData(ci, runs)
              /\ refresh_log' = Returned([task EXCEPT !.wrote = ~raises], raises)
        /\ Len(ci'.tasks) <= MaxScreenTasks
        /\ refresh_tasks' = Remove(refresh_tasks, t)
        /\ UNCHANGED << home, prs, pr, conv, status_color, standup >>

\* The event loop resumes a _poll_data task whose await is over.
RefreshStep ==
    /\ frame = "yielded"
    /\ \E t \in 1 .. Len(refresh_tasks) :
          HomeRefreshStep(t) \/ PrRefreshStep(t) \/ CiRefreshStep(t)
    /\ UNCHANGED << clock, touchVars, pc, gestures, gi, navVars, last_poll, polls, poll_cycle,
                    deploy, frame, conv, status_color, standup >>

RefreshNext == IdleFrame \/ RefreshStep \/ CiTaskStep

RefreshSpec == Init /\ [][RefreshNext]_vars

\* ------------------------------------------------------------ DeployScreen
\* render: y after the header and the target line.
DeployY == CONTENT_Y + 8 + 40 + 28

\* The buttons render draws for the state d, in the order it draws them.
DeployDrawn(d) ==
    IF d.deploy_status = "idle"
    THEN << << "analyze", Rect(140, DeployY + 90, 200, BUTTON_HEIGHT) >> >>
    ELSE IF d.deploy_status = "ready" /\ d.confidence >= MinConfidence
    THEN << << "confirm", Rect(80, ButtonRowY, 200, BUTTON_HEIGHT) >> >>
    ELSE IF d.deploy_status = "failed"
    THEN << << "diagnose", Rect(160, DeployY + 100, 160, BUTTON_HEIGHT) >> >>
    ELSE << >>

\* render: every button drawn is assigned into button_rects; nothing is
\* removed from it.
DeployRender(d) ==
    LET b == DeployDrawn(d)
    IN  [d EXCEPT !.button_rects = IF b = << >> THEN @ ELSE Register(@, b[1][1], b[1][2]),
                  !.drawn = Names(b)]

\* asyncio.create_task(self._execute_deploy()); launch is history: the state
\* in which the latest deployment was started.
Launch(d) ==
    [d EXCEPT !.tasks = Spawn(@, "deploy"),
              !.launch = [status |-> d.deploy_status, confidence |-> d.confidence]]

\* on_button_tap.
DeployOnButtonTap(d, button_name) ==
    IF button_name = "analyze" THEN [d EXCEPT !.tasks = Spawn(@, "analysis")]
    ELSE IF button_name = "confirm" THEN Launch(d)
    ELSE d

\* _on_button_press, the callback of the physical button.
DeployOnButtonPress(d) ==
    IF d.deploy_status = "idle" THEN [d EXCEPT !.tasks = Spawn(@, "analysis")]
    ELSE IF d.deploy_status = "ready" /\ d.confidence >= MinConfidence THEN Launch(d)
    ELSE d

\* Task t runs from its start to its first await.
DeployTaskStart(d, t) ==
    IF d.tasks[t].kind = "analysis"
    THEN [d EXCEPT !.deploy_status = "analyzing",
                   !.tasks[t] = Task("analysis", "analyze_deploy", 0)]
    ELSE [d EXCEPT !.deploy_status = "deploying",
                   !.tasks[t] = Task("deploy", "trigger_deploy", 0)]

\* The await of task t returns (result, for an analysis) or raises.
DeployTaskEnd(d, t, result, raises) ==
    LET task == d.tasks[t]
        e == [d EXCEPT !.tasks = Remove(@, t)]
    IN  IF task.kind = "analysis"
        THEN IF raises THEN [e EXCEPT !.deploy_status = "idle"]
             ELSE [e EXCEPT !.confidence = result.confidence, !.risk_level = result.risk,
                            !.deploy_status = "ready"]
        ELSE IF raises THEN [e EXCEPT !.deploy_status = "failed"]
        ELSE IF task.at = "trigger_deploy"
        THEN [d EXCEPT !.tasks[t] = Task("deploy", "save_deploy", 0)]
        ELSE [e EXCEPT !.deploy_status = "success"]

\* The loop resumes from "await asyncio.sleep(0)": the tasks created in the
\* last iteration have run to their first await by then.
FrameBegin ==
    /\ frame = "yielded"
    /\ AllStarted(deploy.tasks) /\ AllStarted(ci.tasks) /\ AllStarted(pr.tasks)
    /\ AllStarted(conv.tasks) /\ AllStarted(standup.tasks)
    /\ ci.crashed # "render" /\ pr.crashed # "render"
    /\ frame' = "dispatch"
    /\ UNCHANGED << loopVars, poll_cycle, home, pr, ci, deploy, refresh_tasks, refresh_log, conv, status_color, standup >>

\* A swipe makes the manager navigate to the Deploy screen: on_enter
\* registers the callback of the physical button.
DeployEnter ==
    /\ frame = "dispatch"
    /\ ~deploy.current
    /\ deploy' = [deploy EXCEPT !.current = TRUE, !.on_press = TRUE]
    /\ UNCHANGED << loopVars, poll_cycle, home, pr, ci, refresh_tasks, refresh_log, frame, conv, status_color, standup >>

\* A swipe makes the manager navigate away: on_leave removes the callback.
DeployLeave ==
    /\ frame = "dispatch"
    /\ deploy.current
    /\ deploy' = [deploy EXCEPT !.current = FALSE, !.on_press = FALSE]
    /\ UNCHANGED << loopVars, poll_cycle, home, pr, ci, refresh_tasks, refresh_log, frame, conv, status_color, standup >>

\* A tap is dispatched to the Deploy screen.
DeployTap ==
    /\ frame = "dispatch"
    /\ deploy.current
    /\ \E p \in DeployTaps :
          deploy' = DeployOnButtonTap(deploy, OnTap(deploy.button_rects, p))
    /\ Len(deploy'.tasks) <= MaxScreenTasks
    /\ UNCHANGED << loopVars, poll_cycle, home, pr, ci, refresh_tasks, refresh_log, frame, conv, status_color, standup >>

\* The physical button is pressed while the callback is registered.  On the
\* GPIO library's thread asyncio.create_task raises (no running loop) and the
\* press has no effect; called on the loop's thread, the callback creates
\* its task.
DeployPress ==
    /\ deploy.on_press
    /\ \E on_loop \in BOOLEAN :
          deploy' = IF on_loop THEN DeployOnButtonPress(deploy) ELSE deploy
    /\ Len(deploy'.tasks) <= MaxScreenTasks
    /\ UNCHANGED << loopVars, poll_cycle, home, pr, ci, refresh_tasks, refresh_log, frame, conv, status_color, standup >>

\* The rest of the iteration: the current screen is rendered and the loop
\* yields.
DeployFrame ==
    /\ frame = "dispatch"
    /\ deploy' = IF deploy.current THEN DeployRender(deploy) ELSE deploy
    /\ frame' = "yielded"
    /\ UNCHANGED << loopVars, poll_cycle, home, pr, ci, refresh_tasks, refresh_log, conv, status_color, standup >>

\* The event loop runs a task of the screen one step.
DeployTaskStep ==
    /\ frame = "yielded"
    /\ \E t \in 1 .. Len(deploy.tasks) :
          IF deploy.tasks[t].at = "new"
          THEN deploy' = DeployTaskStart(deploy, t)
          ELSE \E result \in AnalysisResults, raises \in BOOLEAN :
                  deploy' = DeployTaskEnd(deploy, t, result, raises)
    /\ UNCHANGED << loopVars, poll_cycle, home, pr, ci, refresh_tasks, refresh_log, frame, conv, status_color, standup >>

DeployNext ==
    \/ FrameBegin
    \/ DeployEnter
    \/ DeployLeave
    \/ DeployTap
    \/ DeployPress
    \/ DeployFrame
    \/ DeployTaskStep

DeploySpec == Init /\ [][DeployNext]_vars

\* ------------------------------------------------ the CI screen in the loop
\* A swipe makes the manager navigate to the CI screen (on_enter) or away
\* from it (on_leave, which the screen does not override).
CiEnter ==
    /\ frame = "dispatch"
    /\ ~ci.current
    /\ ci' = CiOnEnter(ci)
    /\ Len(ci'.tasks) <= MaxScreenTasks
    /\ UNCHANGED << loopVars, poll_cycle, home, pr, refresh_tasks, refresh_log, deploy, frame, conv, status_color, standup >>

CiLeave ==
    /\ frame = "dispatch"
    /\ ci.current
    /\ ci' = [ci EXCEPT !.current = FALSE]
    /\ UNCHANGED << loopVars, poll_cycle, home, pr, refresh_tasks, refresh_log, deploy, frame, conv, status_color, standup >>

\* A tap is dispatched to the CI screen.
CiTap ==
    /\ frame = "dispatch"
    /\ ci.current
    /\ \E p \in CiTaps : ci' = CiOnButtonTap(ci, OnTap(ci.button_rects, p))
    /\ Len(ci'.tasks) <= MaxScreenTasks
    /\ UNCHANGED << loopVars, poll_cycle, home, pr, refresh_tasks, refresh_log, deploy, frame, conv, status_color, standup >>

\* The rest of the iteration: the current screen is rendered and the loop
\* yields, unless render raised.
CiFrame ==
    /\ frame = "dispatch"
    /\ ci' = IF ci.current THEN CiRender(ci) ELSE ci
    /\ frame' = "yielded"
    /\ UNCHANGED << loopVars, poll_cycle, home, pr, refresh_tasks, refresh_log, deploy, conv, status_color, standup >>

\* A _poll_data task is in the screen's refresh_data, and its await of the
\* cache returns or raises.
CiRefresh ==
    /\ frame = "yielded"
    /\ \E runs \in RunResults, raises \in BOOLEAN :
          ci' = IF raises THEN ci ELSE CiRefreshData(ci, runs)
    /\ Len(ci'.tasks) <= MaxScreenTasks
    /\ UNCHANGED << loopVars, poll_cycle, home, pr, refresh_tasks, refresh_log, deploy, frame, conv, status_color, standup >>

CiNext ==
    \/ FrameBegin
    \/ CiEnter
    \/ CiLeave
    \/ CiTap
    \/ CiFrame
    \/ CiRefresh
    \/ CiTaskStep

CiSpec == Init /\ [][CiNext]_vars

\* ---------------------------------------------------------- PRTriageScreen
\* The PR at prs[current_pr_idx], 0 when there is none.
Shown(p, list) == IF p.current_pr_idx < Len(list) THEN list[p.current_pr_idx + 1] ELSE 0

\* _next_pr.
PrNextPr(p, list) ==
    IF list # << >>
    THEN [p EXCEPT !.current_pr_idx = (@ + 1) % Len(list),
                   !.ai_summary = "", !.ai_risk = "", !.ai_concern = "", !.ai_of = 0,
                   !.tasks = Spawn(@, "analyze")]
    ELSE p

\* on_enter.
PrOnEnter(p, list) ==
    [p EXCEPT !.current = TRUE,
              !.tasks = IF list # << >> /\ p.ai_summary = "" THEN Spawn(@, "analyze") ELSE @]

\* on_swipe_right (review "approve") and on_swipe_left (review "reject"): with
\* no PR the swipe is not consumed, and the manager navigates to the next
\* screen.
PrOnSwipe(p, list, review) ==
    IF list # << >> THEN [p EXCEPT !.tasks = Spawn(@, review)]
    ELSE [p EXCEPT !.current = FALSE]

\* on_button_tap.
PrOnButtonTap(p, list, button_name) ==
    IF button_name \in {"approve", "reject"} THEN [p EXCEPT !.tasks = Spawn(@, button_name)]
    ELSE IF button_name = "skip" THEN PrNextPr(p, list)
    ELSE p

\* render.
PrRender(p, list) ==
    IF list = << >> THEN p
    ELSE IF p.current_pr_idx >= Len(list) THEN [p EXCEPT !.crashed = "render"]
    ELSE [p EXCEPT !.button_rects =
             Register(Register(Register(@,
                 "reject", Rect(12, ButtonRowY, 140, BUTTON_HEIGHT)),
                 "skip", Rect(170, ButtonRowY, 140, BUTTON_HEIGHT)),
                 "approve", Rect(328, ButtonRowY, 140, BUTTON_HEIGHT))]

\* Task t runs from its start to its first await: _analyze_current_pr sets
\* _loading before it reads the PR, _approve_current and _reject_current set
\* nothing.
PrTaskStart(p, list, t) ==
    LET k == p.tasks[t].kind
        l == [p EXCEPT !.loading = IF k = "analyze" THEN TRUE ELSE @]
    IN  IF list = << >> THEN [p EXCEPT !.tasks = Remove(@, t)]
        ELSE IF p.current_pr_idx >= Len(list)
        THEN [l EXCEPT !.crashed = "task", !.tasks = Remove(@, t)]
        ELSE [l EXCEPT !.tasks[t] = Task(k, "await", list[p.current_pr_idx + 1])]

\* The assistant's call of task t returns result (for an analysis) or raises.
\* A review task calls _next_pr in both cases.
PrTaskEnd(p, list, t, result, raises) ==
    LET task == p.tasks[t]
        ended == [item |-> task.item, shown |-> Shown(p, list)]
        d == [Quiet(p) EXCEPT !.tasks = Remove(@, t)]
    IN  IF task.kind = "analyze"
        THEN IF raises
             THEN [d EXCEPT !.ai_summary = "Analysis unavailable", !.loading = FALSE,
                            !.ai_of = task.item, !.analysis = ended]
             ELSE [d EXCEPT !.ai_summary = result.summary, !.ai_risk = result.risk,
                            !.ai_concern = result.concern, !.loading = FALSE,
                            !.ai_of = task.item, !.analysis = ended]
        ELSE PrNextPr([d EXCEPT !.review = ended], list)

\* A swipe makes the manager navigate to the PR screen.
PrEnter ==
    /\ frame = "dispatch"
    /\ ~pr.current
    /\ pr' = PrOnEnter(Quiet(pr), prs)
    /\ Len(pr'.tasks) <= MaxScreenTasks
    /\ UNCHANGED << loopVars, poll_cycle, home, ci, refresh_tasks, refresh_log, deploy, frame, conv, status_color, standup >>

\* A swipe is dispatched to the PR screen: right, left (a review, or the
\* navigation away from the screen) or up (skip).
PrSwipe ==
    /\ frame = "dispatch"
    /\ pr.current
    /\ \E direction \in {"right", "left", "up"} :
          pr' = CASE direction = "right" -> PrOnSwipe(Quiet(pr), prs, "approve")
                  [] direction = "left" -> PrOnSwipe(Quiet(pr), prs, "reject")
                  [] OTHER -> PrNextPr(Quiet(pr), prs)
    /\ Len(pr'.tasks) <= MaxScreenTasks
    /\ UNCHANGED << loopVars, poll_cycle, home, ci, refresh_tasks, refresh_log, deploy, frame, conv, status_color, standup >>

\* A tap is dispatched to the PR screen.
PrTap ==
    /\ frame = "dispatch"
    /\ pr.current
    /\ \E p \in PrTaps : pr' = PrOnButtonTap(Quiet(pr), prs, OnTap(pr.button_rects, p))
    /\ Len(pr'.tasks) <= MaxScreenTasks
    /\ UNCHANGED << loopVars, poll_cycle, home, ci, refresh_tasks, refresh_log, deploy, frame, conv, status_color, standup >>

\* The rest of the iteration: the current screen is rendered and the loop
\* yields, unless render raised.
PrFrame ==
    /\ frame = "dispatch"
    /\ pr' = IF pr.current THEN PrRender(Quiet(pr), prs) ELSE Quiet(pr)
    /\ frame' = "yielded"
    /\ UNCHANGED << loopVars, poll_cycle, home, ci, refresh_tasks, refresh_log, deploy, conv, status_color, standup >>

\* A _poll_data task is in the screen's refresh_data, and its await of the
\* cache returns or raises.
PrRefresh ==
    /\ frame = "yielded"
    /\ \E res \in PrLists, raises \in BOOLEAN :
          /\ prs' = IF raises THEN prs ELSE res
          /\ pr' = IF raises THEN Quiet(pr) ELSE PrRefreshData(Quiet(pr), res)
    /\ UNCHANGED << clock, touchVars, pc, gestures, gi, navVars, last_poll, polls, poll_cycle,
                    home, ci, refresh_tasks, refresh_log, deploy, frame, conv, status_color, standup >>

\* The event loop runs a task of the screen one step: the tasks start in the
\* order of their creation, their awaits end in any order.
PrTaskStep ==
    /\ frame = "yielded"
    /\ \E t \in 1 .. Len(pr.tasks) :
          IF pr.tasks[t].at = "new"
          THEN /\ \A u \in 1 .. t - 1 : pr.tasks[u].at # "new"
               /\ pr' = PrTaskStart(Quiet(pr), prs, t)
          ELSE \E result \in PrAnalyses, raises \in BOOLEAN :
                  pr' = PrTaskEnd(pr, prs, t, result, raises)
    /\ Len(pr'.tasks) <= MaxScreenTasks
    /\ UNCHANGED << loopVars, poll_cycle, home, ci, refresh_tasks, refresh_log, deploy, frame, conv, status_color, standup >>

PrNext ==
    \/ FrameBegin
    \/ PrEnter
    \/ PrSwipe
    \/ PrTap
    \/ PrFrame
    \/ PrRefresh
    \/ PrTaskStep

PrSpec == Init /\ [][PrNext]_vars

\* ------------------------------------------------------ ConversationScreen
\* _draw_bottom_bar: the rectangle of the mic button.
MicRect == Rect(68, DisplayHeight - BOTTOM_H + 8, DisplayWidth - 68 - 12, BOTTOM_H - 16)

\* render, as far as it writes state.
ConvRender(c) == [c EXCEPT !.mic_rect = << MicRect >>]

\* handle_tap.
HandleTap(c, p) ==
    IF /\ c.mic_rect # << >> /\ CollidePoint(c.mic_rect[1], p)
       /\ c.state = "IDLE"
       /\ ~c.streaming
       /\ c.mic_available
    THEN [c EXCEPT !.tasks = Append(@, [at |-> "new"])]
    ELSE c

\* _voice_flow with record_and_transcribe: task t runs from where it is to its
\* next await, or to its end; outcome is how the await it was in ended.
VoiceFlowStep(c, t, outcome) ==
    LET at == c.tasks[t].at
        done == [c EXCEPT !.tasks = Remove(@, t)]
    IN  CASE at = "new" ->
               IF ~c.mic_available THEN done
               ELSE [c EXCEPT !.state = "RECORDING", !.tasks[t].at = "record"]
          [] at = "record" ->
               IF outcome = "raises" THEN [done EXCEPT !.state = "IDLE"]
               ELSE [c EXCEPT !.state = "TRANSCRIBING", !.tasks[t].at = "transcribe"]
          [] at = "transcribe" ->
               IF outcome = "text"
               THEN [c EXCEPT !.state = "IDLE", !.streaming = TRUE,
                              !.messages = Append(@, "user"), !.tasks[t].at = "chat"]
               ELSE [done EXCEPT !.state = "IDLE"]
          [] OTHER -> [done EXCEPT !.streaming = FALSE,
                                   !.messages = Append(@, "assistant")]

\* main awaits voice_svc.start(), which detects the microphone.
ConvStart ==
    /\ frame = "dispatch"
    /\ ~conv.started
    /\ \E mic \in BOOLEAN : conv' = [conv EXCEPT !.started = TRUE, !.mic_available = mic]
    /\ UNCHANGED << loopVars, poll_cycle, home, pr, ci, refresh_tasks, refresh_log, deploy, frame, status_color, standup >>

\* main's loop hands a tap that process_events returned to the screen.
ConvTap ==
    /\ frame = "dispatch"
    /\ conv.started
    /\ \E p \in ConvTaps : conv' = HandleTap(conv, p)
    /\ Len(conv'.tasks) <= MaxScreenTasks
    /\ UNCHANGED << loopVars, poll_cycle, home, pr, ci, refresh_tasks, refresh_log, deploy, frame, status_color, standup >>

\* The rest of the iteration: the screen is rendered and the loop yields.
ConvFrame ==
    /\ frame = "dispatch"
    /\ conv.started
    /\ conv' = ConvRender(conv)
    /\ frame' = "yielded"
    /\ UNCHANGED << loopVars, poll_cycle, home, pr, ci, refresh_tasks, refresh_log, deploy, status_color, standup >>

\* The event loop runs a voice flow one step: the tasks start in the order of
\* their creation, their awaits end in any order.
ConvTaskStep ==
    /\ frame = "yielded"
    /\ \E t \in 1 .. Len(conv.tasks), outcome \in Outcomes :
          /\ conv.tasks[t].at = "new" => \A u \in 1 .. t - 1 : conv.tasks[u].at # "new"
          /\ conv' = VoiceFlowStep(conv, t, outcome)
    /\ Len(conv'.messages) <= MaxMessages
    /\ UNCHANGED << loopVars, poll_cycle, home, pr, ci, refresh_tasks, refresh_log, deploy, frame, status_color, standup >>

ConvNext ==
    \/ ConvStart
    \/ FrameBegin
    \/ ConvTap
    \/ ConvFrame
    \/ ConvTaskStep

ConvSpec == Init /\ [][ConvNext]_vars

\* ------------------------------------------------------------- status bar
\* HomeScreen.get_status.
HomeGetStatus(h) ==
    IF h.ci_failing > 0 THEN "error"
    ELSE IF h.pr_count > 3 THEN "warning"
    ELSE "success"

\* PRTriageScreen.get_status.
PrGetStatus(list) == IF Len(list) > 5 THEN "warning" ELSE "success"

\* CIDiagnosisScreen.get_status.
CiGetStatus(c) == IF c.failures # << >> THEN "error" ELSE "success"

\* screen.get_status() of screen number i: the other screens inherit
\* BaseScreen.get_status, which returns _status, "success" since __init__.
GetStatus(i) ==
    CASE NameOf(i) = "home" -> HomeGetStatus(home)
      [] NameOf(i) = "pr_triage" -> PrGetStatus(prs)
      [] NameOf(i) = "ci_diagnosis" -> CiGetStatus(ci)
      [] OTHER -> "success"

\* _get_overall_status, from screen number i on.
RECURSIVE OverallFrom(_)
OverallFrom(i) ==
    IF i >= NumScreens THEN "success"
    ELSE IF GetStatus(i) = "error" THEN "error"
    ELSE IF GetStatus(i) = "warning" THEN "warning"
    ELSE OverallFrom(i + 1)

GetOverallStatus == OverallFrom(0)

\* A _poll_data task's HomeScreen.refresh_data runs to its end: the cache
\* holds prs pending PRs and runs failed runs.
StatusRefreshHome ==
    /\ frame = "yielded"
    /\ \E n \in 0 .. MaxCount, runs \in RunResults :
          home' = [pr_count |-> n, ci_failing |-> Len(runs)]
    /\ UNCHANGED << clock, touchVars, pc, gestures, gi, navVars, prs, last_poll, polls, poll_cycle,
                    pr, ci, refresh_tasks, refresh_log, deploy, frame, conv, status_color, standup >>

\* A _poll_data task's PRTriageScreen.refresh_data runs to its end.
StatusRefreshPr ==
    /\ frame = "yielded"
    /\ \E n \in 0 .. MaxCount :
          /\ prs' = [i \in 1 .. n |-> i]
          /\ pr' = PrRefreshData(pr, prs')
    /\ UNCHANGED << clock, touchVars, pc, gestures, gi, navVars, last_poll, polls, poll_cycle,
                    home, ci, refresh_tasks, refresh_log, deploy, frame, conv, status_color, standup >>

\* The rest of the iteration: the status bar is drawn with the aggregate
\* status, the current screen (Home) is rendered, and the loop yields.
StatusFrame ==
    /\ frame = "dispatch"
    /\ status_color' = GetOverallStatus
    /\ frame' = "yielded"
    /\ UNCHANGED << loopVars, poll_cycle, home, pr, ci, refresh_tasks, refresh_log, deploy, conv, standup >>

StatusNext ==
    \/ FrameBegin
    \/ StatusFrame
    \/ StatusRefreshHome
    \/ StatusRefreshPr
    \/ CiRefresh
    \/ CiTaskStep

StatusSpec == Init /\ [][StatusNext]_vars

\* ----------------------------------------------------------- StandupScreen
\* min and max of Python.
Min(a, b) == IF a < b THEN a ELSE b
Max(a, b) == IF a > b THEN a ELSE b

StandupIdx == FirstMatch("standup")

\* on_enter.
StandupOnEnter(s) ==
    [s EXCEPT !.tasks = IF ~s.generated_today THEN Spawn(@, "load") ELSE @]

\* on_button_tap ("copy" writes no state).
StandupOnButtonTap(s, button_name) ==
    IF button_name = "generate" THEN [s EXCEPT !.tasks = Spawn(@, "generate")] ELSE s

\* on_swipe_up.
StandupOnSwipeUp(s) ==
    IF s.content_lines > 0
    THEN [s EXCEPT !.scroll_offset = Min(@ + 3, Max(0, s.content_lines - 6))]
    ELSE s

\* on_swipe_down.
StandupOnSwipeDown(s) == [s EXCEPT !.scroll_offset = Max(0, @ - 3)]

\* What the hooks the dispatch of gesture g called, cs, do to the standup
\* screen.
RECURSIVE StandupHooks(_, _, _)
StandupHooks(s, cs, g) ==
    IF cs = << >> THEN s
    ELSE LET c == Head(cs)
             t == IF c[2] # StandupIdx THEN s
                  ELSE CASE c[1] = "on_enter" -> StandupOnEnter(s)
                         [] c[1] = "on_tap" ->
                               StandupOnButtonTap(s, OnTap(s.button_rects, << g.x, g.y >>))
                         [] c[1] = "on_swipe_up" -> StandupOnSwipeUp(s)
                         [] c[1] = "on_swipe_down" -> StandupOnSwipeDown(s)
                         [] OTHER -> s
         IN  StandupHooks(t, Tail(cs), g)

\* render.
StandupRender(s) ==
    IF s.loading THEN s
    ELSE IF s.content_lines = 0
    THEN [s EXCEPT !.button_rects =
             Register(@, "generate", Rect(140, CONTENT_Y + 8 + 36 + 100, 200, BUTTON_HEIGHT))]
    ELSE [s EXCEPT !.button_rects =
             Register(@, "copy", Rect(120, ButtonRowY, 240, BUTTON_HEIGHT))]

\* Task t runs from its start to its first await.
StandupTaskStart(s, t) ==
    IF s.tasks[t].kind = "load"
    THEN [s EXCEPT !.tasks[t] = Task("load", "get_latest_standup", 0)]
    ELSE [s EXCEPT !.loading = TRUE, !.tasks[t] = Task("generate", "generate_standup", 0)]

\* The await of task t returns a standup of n lines (n = 0: the cache holds
\* none for today) or raises.  An exception ends _load_cached;
\* _generate_standup catches it.
StandupTaskEnd(s, t, n, raises) ==
    LET task == s.tasks[t]
        e == [s EXCEPT !.tasks = Remove(@, t)]
    IN  IF task.kind = "load"
        THEN IF raises \/ n = 0 THEN e
             ELSE [e EXCEPT !.content_lines = n, !.generated_today = TRUE]
        ELSE IF raises THEN [e EXCEPT !.content_lines = 1, !.loading = FALSE]
        ELSE IF task.at = "generate_standup"
        THEN [s EXCEPT !.content_lines = IF n = 0 THEN 1 ELSE n, !.generated_today = TRUE,
                       !.tasks[t] = Task("generate", "save_standup", 0)]
        ELSE [e EXCEPT !.loading = FALSE]

\* gestures = self.touch.process_events(): the call returns one gesture.
StandupEvents ==
    /\ pc = "top"
    /\ frame = "dispatch"
    /\ \E g \in StandupGestures : gestures' = << g >>
    /\ gi' = 1
    /\ pc' = "dispatch"
    /\ calls' = << >>
    /\ UNCHANGED << clock, touchVars, current_idx, entered, prs, last_poll, polls, viewVars >>

\* One iteration of "for gesture in gestures", with what the hooks it calls
\* do to the standup screen.
StandupDispatch ==
    /\ pc = "dispatch"
    /\ frame = "dispatch"
    /\ gi <= Len(gestures)
    /\ LET d == Dispatch(gestures[gi], current_idx)
       IN  /\ current_idx' = d.idx
           /\ calls' = d.calls
           /\ entered' = Entered(entered, d.calls)
           /\ standup' = StandupHooks(standup, d.calls, gestures[gi])
    /\ Len(standup'.tasks) <= MaxScreenTasks
    /\ gi' = gi + 1
    /\ UNCHANGED << clock, touchVars, pc, gestures, prs, last_poll, polls, poll_cycle, home, pr,
                    ci, refresh_tasks, refresh_log, deploy, frame, conv, status_color >>

\* The rest of the iteration: the current screen is rendered and the loop
\* yields.
StandupFrame ==
    /\ pc = "dispatch"
    /\ frame = "dispatch"
    /\ gi > Len(gestures)
    /\ standup' = IF current_idx = StandupIdx THEN StandupRender(standup) ELSE standup
    /\ pc' = "top"
    /\ frame' = "yielded"
    /\ calls' = << >>
    /\ UNCHANGED << clock, touchVars, gestures, gi, current_idx, entered, prs, last_poll, polls,
                    poll_cycle, home, pr, ci, refresh_tasks, refresh_log, deploy, conv,
                    status_color >>

\* The event loop runs a task of the screen one step: the tasks start in the
\* order of their creation, their awaits end in any order.
StandupTaskStep ==
    /\ frame = "yielded"
    /\ \E t \in 1 .. Len(standup.tasks) :
          IF standup.tasks[t].at = "new"
          THEN /\ \A u \in 1 .. t - 1 : standup.tasks[u].at # "new"
               /\ standup' = StandupTaskStart(standup, t)
          \* the lines of the text: none (no cached standup), one (an empty
          \* text split at the line ends), one more than the window, many
          ELSE \E n \in { 0, 1, 7, MaxLines }, raises \in BOOLEAN :
                  standup' = StandupTaskEnd(standup, t, n, raises)
    /\ UNCHANGED << loopVars, poll_cycle, home, pr, ci, refresh_tasks, refresh_log, deploy,
                    frame, conv, status_color >>

StandupNext ==
    \/ RunStart
    \/ FrameBegin
    \/ StandupEvents
    \/ StandupDispatch
    \/ StandupFrame
    \/ StandupTaskStep

StandupSpec == Init /\ [][StandupNext]_vars

\* ================================================================ properties
\* Steps of the model, as the properties name them.
\* process_events returns (the check for a held long press has run).
Returns == call.active /\ ~call'.active /\ ~call'.raised
\* The event loop has processed one more event.
EventDone == call.active /\ call'.n = call.n + 1
\* run has dispatched one more gesture.
Dispatched == pc = "dispatch" /\ gi' = gi + 1

IsLifecycle(c) == c[1] \in {"on_leave", "set_idx", "on_enter"}
Lifecycle(cs) == SelectSeq(cs, IsLifecycle)
IsNavigate(c) == c[1] = "navigate"
Navigations(cs) == SelectSeq(cs, IsNavigate)
IsSetIdx(c) == c[1] = "set_idx"
IsLongPress(g) == g.type = "LONG_PRESS"

\* The kind the classification rule gives dx, dy and duration.
RuleKind(dx, dy, duration) ==
    IF Abs(dx) > 50 \/ Abs(dy) > 50
    THEN IF Abs(dx) > Abs(dy)
         THEN (IF dx > 0 THEN "SWIPE_RIGHT" ELSE IF dx < 0 THEN "SWIPE_LEFT" ELSE "none")
         ELSE (IF dy > 0 THEN "SWIPE_DOWN" ELSE IF dy < 0 THEN "SWIPE_UP" ELSE "none")
    ELSE IF duration > 600 THEN "LONG_PRESS" ELSE "TAP"

UpGestures == { i \in 1 .. Len(call.gestures) : call.meta[i].src = "up" }

\* C1: every pointer-up processed with a session active has emitted exactly
\* one gesture; its kind is the rule's for dx, dy and the duration, its end
\* is the position of the pointer-up and its start the session's start.
C1_ClassificationRule ==
    /\ Len(call.meta) = Len(call.gestures)
    /\ Cardinality(UpGestures) = call.ups
    /\ \A i \in UpGestures :
          LET g == call.gestures[i]
              m == call.meta[i]
          IN  /\ << g.x, g.y >> = m.pos
              /\ << g.start_x, g.start_y >> = m.origin
              /\ g.type = RuleKind(m.pos[1] - m.origin[1], m.pos[2] - m.origin[2], m.dur)

\* A pointer-up with |dx| = |dy| > 50 was classified (a vertical swipe).
C1_Witness ==
    \E i \in UpGestures :
        /\ call.gestures[i].type = "SWIPE_DOWN"
        /\ call.meta[i].pos[1] - call.meta[i].origin[1] = call.meta[i].pos[2] - call.meta[i].origin[2]

\* C2: a call that begins with a session, processes no pointer-down and no
\* pointer-up, and ends more than 600 ms after the session's start returns
\* exactly one LongPress, at the session's start, and clears the session; a
\* call that begins with no session and processes no pointer-down returns no
\* LongPress.
C2_HeldLongPressOnce ==
    [][ Returns =>
          /\ (call.start0 # NoTouch /\ call.downs = 0 /\ call.ups = 0
                /\ clock - touch_start_time > 600)
             => /\ SelectSeq(gestures', IsLongPress)
                     = << Gesture("LONG_PRESS", call.start0[1], call.start0[2],
                                  call.start0[1], call.start0[2]) >>
                /\ touch_start' = NoTouch
          /\ (call.start0 = NoTouch /\ call.downs = 0)
             => SelectSeq(gestures', IsLongPress) = << >>
      ]_vars

\* A call without pointer events has returned the held long press.
C2_Witness ==
    /\ ~call.active
    /\ call.downs = 0
    /\ call.ups = 0
    /\ \E i \in 1 .. Len(call.meta) : call.meta[i].src = "hold"
    /\ touch_start = NoTouch

\* C3: a pointer-down leads to at most one gesture, and a pointer-up processed
\* with no session adds no gesture and leaves the classifier's state as it was.
C3_OneGesturePerInteraction ==
    /\ [](Len(emitted) <= 1)
    /\ [][ (EventDone /\ call'.idle_ups = call.idle_ups + 1)
           => /\ call'.gestures = call.gestures
              /\ touch_start' = touch_start
              /\ touch_start_time' = touch_start_time
              /\ emitted' = emitted ]_vars

\* The held long press has fired and the pointer-up of that press, processed
\* by a later call, has emitted nothing.
C3_Witness ==
    /\ emitted = << "hold" >>
    /\ call.start0 = NoTouch
    /\ call.idle_ups = 1
    /\ call.gestures = << >>

\* C4: current_idx is an index of the screen list.
C4_IndexInRange == 0 <= current_idx /\ current_idx < NumScreens

\* A swipe left on the last screen was dispatched, and it is still current.
C4_Witness ==
    /\ current_idx = NumScreens - 1
    /\ calls = << Call("on_swipe_left", NumScreens - 1, "False"),
                  Call("navigate", NumScreens - 1, "+1") >>

\* C5: navigate with a target outside the list changes nothing: the index
\* stays, and no on_leave and no on_enter is called.
C5_NavigateOutOfRangeNoOp ==
    [][ \A k \in 1 .. Len(calls') :
           (/\ calls'[k][1] = "navigate"
            /\ calls'[k][2] = current_idx
            /\ ~(calls'[k][2] + DirOf(calls'[k][3]) \in Screens))
           => /\ current_idx' = current_idx
              /\ Lifecycle(calls') = << >>
              /\ entered' = entered ]_vars

\* navigate(-1) was called on the first screen.
C5_Witness ==
    /\ current_idx = 0
    /\ Len(calls) >= 1
    /\ calls[Len(calls)] = Call("navigate", 0, "-1")

\* C6: a step that changes current_idx calls on_leave of the old screen, sets
\* the index, calls on_enter of the new screen, in this order, and no other
\* lifecycle hook.
C6_LeaveThenEnter ==
    [][ current_idx' # current_idx
        => Lifecycle(calls') = << Call("on_leave", current_idx, ""),
                                  Call("set_idx", current_idx', ""),
                                  Call("on_enter", current_idx', "") >> ]_vars

\* The swipe left on the home screen has moved to the PR screen.
C6_Witness ==
    calls = << Call("on_swipe_left", 0, "False"), Call("navigate", 0, "+1"),
               Call("on_leave", 0, ""), Call("set_idx", 1, ""), Call("on_enter", 1, "") >>

\* C7: once run has started, the current screen has been entered once more
\* than left, and every other screen as often entered as left.
C7_ExactlyOneEntered ==
    pc # "init" => \A i \in Screens : entered[i] = IF i = current_idx THEN 1 ELSE 0

\* The loop runs with the third screen current.
C7_Witness ==
    /\ pc = "top"
    /\ current_idx = 2
    /\ entered[2] = 1
    /\ entered[0] = 0

\* C8: navigate_to is a no-op for the current screen's name and for a name no
\* screen has, and makes the first screen with the name current otherwise.
C8_NavigateTo ==
    [][ (Len(calls') >= 1 /\ calls'[1][1] = "navigate_to" /\ calls'[1][2] = current_idx)
        => LET name == calls'[1][3]
           IN  IF (\A i \in Screens : NameOf(i) # name) \/ NameOf(current_idx) = name
               THEN /\ current_idx' = current_idx
                    /\ Len(calls') = 1
                    /\ entered' = entered
               ELSE /\ NameOf(current_idx') = name
                    /\ \A i \in Screens : NameOf(i) = name => current_idx' <= i ]_vars

\* navigate_to was called with the name of the current screen.
C8_Witness ==
    /\ Len(calls) = 1
    /\ calls[1][1] = "navigate_to"
    /\ calls[1][3] = NameOf(current_idx)
    /\ current_idx = 1

SwipeHook(g) == IF g.type = "SWIPE_LEFT" THEN "on_swipe_left" ELSE "on_swipe_right"
SwipeDir(g) == IF g.type = "SWIPE_LEFT" THEN "+1" ELSE "-1"

\* C9: a dispatched SwipeLeft or SwipeRight is offered to the current screen;
\* navigate is called, with +1 for SwipeLeft and -1 for SwipeRight, exactly
\* when the screen returned false; when it returned true the index stays and
\* no lifecycle hook is called.
C9_SwipeVeto ==
    [][ (Dispatched /\ gestures[gi].type \in {"SWIPE_LEFT", "SWIPE_RIGHT"})
        => /\ Len(calls') >= 1
           /\ calls'[1][1] = SwipeHook(gestures[gi])
           /\ calls'[1][2] = current_idx
           /\ calls'[1][3] \in {"True", "False"}
           /\ calls'[1][3] = "False"
              <=> Navigations(calls') = << Call("navigate", current_idx, SwipeDir(gestures[gi])) >>
           /\ calls'[1][3] = "True"
              => /\ Navigations(calls') = << >>
                 /\ current_idx' = current_idx
                 /\ Lifecycle(calls') = << >>
                 /\ entered' = entered ]_vars

\* The PR screen has consumed a swipe left.
C9_Witness ==
    /\ current_idx = 1
    /\ calls = << Call("on_swipe_left", 1, "True") >>

GestureHook(g) ==
    CASE g.type = "SWIPE_LEFT" -> << "on_swipe_left" >>
      [] g.type = "SWIPE_RIGHT" -> << "on_swipe_right" >>
      [] g.type = "TAP" -> << "on_tap" >>
      [] g.type = "SWIPE_UP" -> << "on_swipe_up" >>
      [] g.type = "LONG_PRESS" -> << "on_long_press" >>
      [] OTHER -> << >>

IsGestureHook(c) ==
    c[1] \in {"on_swipe_left", "on_swipe_right", "on_tap", "on_swipe_up", "on_long_press"}

\* C10: the loop dispatches the returned gestures one by one in the order of
\* the list, which is the order of detection; each goes to the screen that is
\* current when it is dispatched; one dispatch sets current_idx at most once;
\* the loop goes on only after the last gesture.
C10_DispatchInOrder ==
    [][ /\ (pc = "events" /\ pc' = "dispatch")
           => gi' = 1 /\ gestures' = call'.gestures
        /\ Dispatched
           => /\ gi <= Len(gestures)
              /\ gestures' = gestures
              /\ [i \in 1 .. Len(SelectSeq(calls', IsGestureHook)) |->
                     << SelectSeq(calls', IsGestureHook)[i][1],
                        SelectSeq(calls', IsGestureHook)[i][2] >>]
                   = [i \in 1 .. Len(GestureHook(gestures[gi])) |->
                         << GestureHook(gestures[gi])[i], current_idx >>]
              /\ Len(SelectSeq(calls', IsSetIdx)) <= 1
        /\ (pc = "dispatch" /\ pc' # "dispatch")
           => gi = Len(gestures) + 1
      ]_vars

\* A swipe left and a tap came in one frame: the swipe moved from the home
\* screen to the PR screen, and the tap went to the PR screen.
C10_Witness ==
    /\ pc = "dispatch"
    /\ Len(gestures) = 2
    /\ gestures[1].type = "SWIPE_LEFT"
    /\ gestures[2].type = "TAP"
    /\ gi = 3
    /\ prs = << >>
    /\ current_idx = 1
    /\ calls = << Call("on_tap", 1, "") >>

\* C11: at the end of a _poll_data call, the refresh_data of every screen
\* whose own refresh_data does not raise has run, whatever the other screens'
\* did and wherever they are in the list, and the exception was caught in
\* the task.
C11_RefreshIsolated ==
    poll_cycle.done =>
        /\ Screens \ poll_cycle.raises \subseteq poll_cycle.ran
        /\ (poll_cycle.raises # {} => poll_cycle.caught)

\* C12: when a refresh_data call of the Home, PR or CI screen ends by catching
\* a cache failure, the fields of that screen it is responsible for have the
\* values they had when the call began.
C12_FailedRefreshUntouched ==
    refresh_log.failed =>
        (refresh_log.wrote => ViewOf(refresh_log.screen) = refresh_log.before)

\* C13, as claimed: the loop creates a refresh task only when none is in
\* flight, so at most one _poll_data task exists at any time.
C13_NoOverlappingRefresh == Len(refresh_tasks) <= 1

\* C13, amended: the timestamp recorded when a task is created keeps the loop
\* from creating another within the poll interval, however many iterations
\* pass and whether or not the task has ended: the tasks in flight were
\* created more than the poll interval apart, and none later than the
\* recorded timestamp.
C13_RefreshAtMostOncePerInterval ==
    \A i, j \in 1 .. Len(refresh_tasks) :
        /\ refresh_tasks[i].created <= last_poll
        /\ (i < j => refresh_tasks[j].created - refresh_tasks[i].created > PollIntervalMs)

\* Two refresh tasks are in flight, the first still in its first await.
C13_Witness ==
    /\ Len(refresh_tasks) = 2
    /\ refresh_tasks[1].screen = "home"
    /\ refresh_tasks[2].created = last_poll

\* C14: once the Deploy screen has been rendered, button_rects holds exactly
\* the buttons the latest render drew, and on_tap finds no button that the
\* latest render did not draw, wherever the tap is.
C14_ButtonRectsRebuilt ==
    /\ Names(deploy.button_rects) = deploy.drawn
    /\ \A p \in DeployTaps : OnTap(deploy.button_rects, p) \in deploy.drawn \cup {""}

\* C17: a deployment is started only when deploy_status is "ready" and the
\* confidence is at least the configured minimum.
C17_DeployOnlyWhenReady ==
    deploy.launch # NoLaunch =>
        /\ deploy.launch.status = "ready"
        /\ deploy.launch.confidence >= MinConfidence

\* C15, as claimed: a pointer-down processed while a session is active leaves
\* the session's start coordinates and start time as they were (the gesture
\* of the following pointer-up is computed from the session's start, so it
\* would be computed from the first down).
C15_SecondDownIgnored ==
    [][(EventDone /\ call'.downs = call.downs + 1 /\ touch_start # NoTouch)
          => (touch_start' = touch_start /\ touch_start_time' = touch_start_time)]_vars

\* C15, amended: the latest pointer-down wins.  Every pointer-down, with a
\* session active or not, sets the session's start to its own position and
\* time, and the gesture of the following pointer-up is computed from the
\* session's start, that is from the latest down.
C15_LastDownWins ==
    [][/\ (EventDone /\ call'.downs = call.downs + 1)
            => (touch_start' = call'.last_down /\ touch_start_time' = clock)
       /\ (EventDone /\ call'.ups = call.ups + 1)
            => LET g == call'.gestures[Len(call'.gestures)]
                   m == call'.meta[Len(call'.meta)]
               IN  /\ << g.start_x, g.start_y >> = touch_start
                   /\ m.dur = clock - touch_start_time
                   /\ (call.last_down # NoTouch => m.origin = call.last_down)]_vars

\* A call that began with a session active has processed a pointer-down at
\* another position and then a pointer-up, whose gesture starts at the second
\* down.
C15_Witness ==
    /\ call.start0 # NoTouch
    /\ call.downs = 1
    /\ call.ups = 1
    /\ call.last_down # call.start0
    /\ call.meta[Len(call.meta)].origin = call.last_down

\* C16: when process_events meets a quit request it raises SystemExit and
\* returns nothing: run leaves its loop in that step with no gesture of the
\* call handed over (the list run iterates over is empty and no hook is
\* called), and from then on nothing is dispatched, scheduled or rendered.
C16_QuitEndsLoop ==
    [][/\ (call'.raised /\ ~call.raised)
            => /\ pc = "events" /\ pc' = "exit"
               /\ gestures' = << >> /\ calls' = << >>
               /\ UNCHANGED << current_idx, entered, last_poll, polls, clock, conv, status_color, standup >>
       /\ pc = "exit" => UNCHANGED vars]_vars

\* run has ended on a quit request that followed an event from which a
\* gesture was classified in the same call.
C16_Witness ==
    /\ pc = "exit"
    /\ call.raised
    /\ call.gestures # << >>
    /\ calls = << >>

\* C18: on the CI screen, whenever failures is not empty current_idx is an
\* index of it, and no "self.failures[self.current_idx]" of render or of a
\* task has raised.
C18_CiIndexInRange ==
    /\ ci.failures # << >> => (0 <= ci.current_idx /\ ci.current_idx < Len(ci.failures))
    /\ ci.crashed = ""

\* C19: on the PR screen, whenever a PR is shown and one of ai_summary,
\* ai_risk and ai_concern is not empty, the fields are the result of analysing
\* the PR at prs[current_pr_idx]; and an analysis task that ends writes its
\* result onto the PR it had read, when a PR is shown at all.
C19_AnalysisOfShownPr ==
    /\ (Shown(pr, prs) # 0 /\ (pr.ai_summary # "" \/ pr.ai_risk # "" \/ pr.ai_concern # ""))
          => pr.ai_of = Shown(pr, prs)
    /\ pr.analysis.shown # 0 => pr.analysis.item = pr.analysis.shown

C21_OneVoiceFlow ==
    Cardinality({ t \in 1 .. Len(conv.tasks) : conv.tasks[t].at # "new" }) <= 1

\* C22: DeployScreen.deploy_status changes only from "idle" to "analyzing",
\* from "analyzing" to "ready" or "idle", from "ready" to "deploying", and
\* from "deploying" to "success" or "failed".
C22_DeployStatusTransitions ==
    [][deploy'.deploy_status # deploy.deploy_status =>
          << deploy.deploy_status, deploy'.deploy_status >> \in
              { << "idle", "analyzing" >>, << "analyzing", "ready" >>,
                << "analyzing", "idle" >>, << "ready", "deploying" >>,
                << "deploying", "success" >>, << "deploying", "failed" >> }]_vars

\* C23: the status a frame draws in the status bar is "error" when some
\* screen's get_status returns "error", "warning" when none returns "error"
\* and some screen returns "warning", and "success" otherwise, wherever the
\* screens are in the list.
C23_OverallStatus ==
    [][(frame = "dispatch" /\ frame' = "yielded") =>
          status_color' =
              IF \E i \in Screens : GetStatus(i) = "error" THEN "error"
              ELSE IF \E i \in Screens : GetStatus(i) = "warning" THEN "warning"
              ELSE "success"]_vars

\* C24: on the PR screen, whatever the interleaving of refreshes, skips and
\* reviews, current_pr_idx is 0 when prs is empty and less than len(prs)
\* otherwise, and neither render nor a task has indexed past the end of prs.
C24_PrIndexInRange ==
    /\ IF prs = << >> THEN pr.current_pr_idx = 0 ELSE pr.current_pr_idx < Len(prs)
    /\ pr.current_pr_idx >= 0
    /\ pr.crashed = ""

\* A refresh has shortened prs to one PR while a task that had read PR 2, at
\* index 1, is still waiting.
C24_Witness ==
    /\ prs = << 1 >>
    /\ pr.current
    /\ \E t \in 1 .. Len(pr.tasks) : pr.tasks[t].at = "await" /\ pr.tasks[t].item = 2

\* C25: a call that ends while the pointer has been down for more than 600 ms
\* returns a LongPress at the session's start as its last gesture and clears
\* the session; the pointer-up that follows such a long press adds no gesture,
\* whatever its displacement; and a pointer-up is classified only in a session
\* for which no call has emitted the held long press.
C25_LongDragIsNoSwipe ==
    /\ [][ (Returns /\ touch_start # NoTouch /\ clock - touch_start_time > 600)
           => /\ gestures' # << >>
              /\ gestures'[Len(gestures')] =
                    Gesture("LONG_PRESS", touch_start[1], touch_start[2],
                            touch_start[1], touch_start[2])
              /\ touch_start' = NoTouch ]_vars
    /\ [][ (EventDone /\ call.held # NoTouch
              /\ call'.ups + call'.idle_ups = call.ups + call.idle_ups + 1)
           => call'.gestures = call.gestures ]_vars
    /\ [][ (EventDone /\ call'.ups = call.ups + 1)
           => call.held = NoTouch /\ emitted = << >> ]_vars

\* A press was held for more than 600 ms and reported as a long press, and
\* the pointer-up of that press, more than 50 pixels away from its start, was
\* the only event of a later call, which returned no gesture.
C25_Witness ==
    /\ ~call.active
    /\ call.late_up # << >>
    /\ \/ Abs(call.late_up[2][1] - call.late_up[1][1]) > 50
       \/ Abs(call.late_up[2][2] - call.late_up[1][2]) > 50
    /\ call.n = 1
    /\ gestures = << >>

\* C26: while the PR screen is current and prs is not empty, the dispatch of
\* a gesture leaves current_idx as it is and calls no lifecycle hook, and a
\* SwipeLeft or SwipeRight is consumed by the screen.
C26_PrConsumesSwipes ==
    [][ (Dispatched /\ NameOf(current_idx) = "pr_triage" /\ prs # << >>)
        => /\ current_idx' = current_idx
           /\ Lifecycle(calls') = << >>
           /\ Navigations(calls') = << >>
           /\ entered' = entered
           /\ gestures[gi].type \in {"SWIPE_LEFT", "SWIPE_RIGHT"}
              => calls' = << Call(SwipeHook(gestures[gi]), current_idx, "True") >> ]_vars

\* A swipe right and a swipe left came in one frame with the PR screen
\* current and a PR pending: both were consumed, and the PR screen stayed.
C26_Witness ==
    /\ pc = "dispatch"
    /\ Len(gestures) = 2
    /\ gestures[1].type = "SWIPE_RIGHT"
    /\ gestures[2].type = "SWIPE_LEFT"
    /\ gi = 3
    /\ prs # << >>
    /\ current_idx = 1
    /\ entered[1] = 1
    /\ calls = << Call("on_swipe_left", 1, "True") >>

\* C27, as claimed: the dispatch of a SwipeDown calls no hook and changes
\* neither current_idx nor the standup screen; on_swipe_down is never called;
\* and scroll_offset never decreases.
C27_SwipeDownNeverScrollsBack ==
    /\ [][ (Dispatched /\ gestures[gi].type = "SWIPE_DOWN")
           => /\ calls' = << >>
              /\ current_idx' = current_idx
              /\ entered' = entered
              /\ standup' = standup ]_vars
    /\ [](\A i \in 1 .. Len(calls) : calls[i][1] # "on_swipe_down")
    /\ [][ standup'.scroll_offset >= standup.scroll_offset ]_vars

\* C27, amended: the dispatch of a SwipeDown calls no hook and changes
\* neither current_idx nor the standup screen, and on_swipe_down is never
\* called; scroll_offset decreases only when on_swipe_up clamps it to the
\* last page of a standup that became shorter.
C27_SwipeDownNotDispatched ==
    /\ [][ (Dispatched /\ gestures[gi].type = "SWIPE_DOWN")
           => /\ calls' = << >>
              /\ current_idx' = current_idx
              /\ entered' = entered
              /\ standup' = standup ]_vars
    /\ [](\A i \in 1 .. Len(calls) : calls[i][1] # "on_swipe_down")
    /\ [][ standup'.scroll_offset < standup.scroll_offset
           => /\ gestures[gi].type = "SWIPE_UP"
              /\ standup'.scroll_offset = Max(0, standup.content_lines - 6) ]_vars

\* A SwipeDown was dispatched with the standup screen current and scrolled.
C27_Witness ==
    /\ pc = "dispatch"
    /\ gi = 2
    /\ gestures[1].type = "SWIPE_DOWN"
    /\ current_idx = StandupIdx
    /\ standup.scroll_offset > 0
    /\ calls = << >>

====
